---- MODULE Spec2Model ----
(***************************************************************************)
(* State-machine model of the disaster-alert pipeline of rss-alert-monitor *)
(* (main.py, process_data.py, fetch_feeds.py, send_to_slack.py).           *)
(*                                                                         *)
(* Python strings are sequences of one-character strings, so that lower(), *)
(* startswith(), "in" and the regular expressions of the source are        *)
(* computed character by character.  Python None and an absent dict key    *)
(* are the one-element sequences None and Missing; a JSON value that is    *)
(* not a string (a number, a list, an object) is NonStr.                   *)
(***************************************************************************)
EXTENDS Integers, Sequences, FiniteSets, TLC

None == <<"None">>
Missing == <<"Missing">>
NonStr == <<"NonStr">>

IsStr(v) == v # None /\ v # Missing /\ v # NonStr

(***************************************************************************)
(* String literals of the source.                                          *)
(***************************************************************************)
k_spc_md == <<"s", "p", "c", " ", "m", "d">>  \* "spc md"
k_md_link == <<"/", "m", "d", "/">>  \* "/md/"
k_outlook_link == <<"/", "o", "u", "t", "l", "o", "o", "k", "/">>  \* "/outlook/"
k_outlook == <<"o", "u", "t", "l", "o", "o", "k">>  \* "outlook"
k_green_sp == <<"g", "r", "e", "e", "n", " ">>  \* "green "
k_green_alert == <<"g", "r", "e", "e", "n", " ", "a", "l", "e", "r", "t">>  \* "green alert"
k_alertlevel == <<"a", "l", "e", "r", "t", "l", "e", "v", "e", "l">>  \* "alertlevel"
k_green == <<"g", "r", "e", "e", "n">>  \* "green"
k_green_earthquake == <<"g", "r", "e", "e", "n", " ", "e", "a", "r", "t", "h", "q", "u", "a", "k", "e">>  \* "green earthquake"
k_icon == <<"i", "c", "o", "n">>  \* "icon"
k_eq == <<"e", "q">>  \* "eq"
k_earthquake == <<"e", "a", "r", "t", "h", "q", "u", "a", "k", "e">>  \* "earthquake"
k_m == <<"m">>  \* "m"
k_magnitude == <<"m", "a", "g", "n", "i", "t", "u", "d", "e">>  \* "magnitude"
k_gdacs == <<"g", "d", "a", "c", "s">>  \* "gdacs"
k_usgs == <<"u", "s", "g", "s">>  \* "usgs"
k_noaa_spc == <<"n", "o", "a", "a", "_", "s", "p", "c">>  \* "noaa_spc"
k_nhc == <<"n", "h", "c">>  \* "nhc"
k_reliefweb == <<"r", "e", "l", "i", "e", "f", "w", "e", "b">>  \* "reliefweb"
k_inciweb == <<"i", "n", "c", "i", "w", "e", "b">>  \* "inciweb"
UPPER == <<"A", "B", "C", "D", "E", "F", "G", "H", "I", "J", "K", "L", "M", "N", "O", "P", "Q", "R", "S", "T", "U", "V", "W", "X", "Y", "Z">>  \* "ABCDEFGHIJKLMNOPQRSTUVWXYZ"
LOWER == <<"a", "b", "c", "d", "e", "f", "g", "h", "i", "j", "k", "l", "m", "n", "o", "p", "q", "r", "s", "t", "u", "v", "w", "x", "y", "z">>  \* "abcdefghijklmnopqrstuvwxyz"
DIGITS == <<"0", "1", "2", "3", "4", "5", "6", "7", "8", "9">>  \* "0123456789"
key_title == <<"t", "i", "t", "l", "e">>  \* "title"
key_summary == <<"s", "u", "m", "m", "a", "r", "y">>  \* "summary"
key_link == <<"l", "i", "n", "k">>  \* "link"
key_published == <<"p", "u", "b", "l", "i", "s", "h", "e", "d">>  \* "published"
key_source == <<"s", "o", "u", "r", "c", "e">>  \* "source"
key_source_type == <<"s", "o", "u", "r", "c", "e", "_", "t", "y", "p", "e">>  \* "source_type"
key_raw_entry == <<"r", "a", "w", "_", "e", "n", "t", "r", "y">>  \* "raw_entry"
k_gt == <<">">>  \* ">"
k_dot == <<".">>  \* "."

(***************************************************************************)
(* Python string primitives.                                               *)
(***************************************************************************)
IsDigit(c) == \E i \in 1..10 : DIGITS[i] = c

IsSpace(c) == c \in {" ", "\n"}

DigitVal(c) == (CHOOSE i \in 1..10 : DIGITS[i] = c) - 1

LowerChar(c) == IF \E i \in 1..26 : UPPER[i] = c THEN LOWER[CHOOSE i \in 1..26 : UPPER[i] = c] ELSE c

UpperChar(c) == IF \E i \in 1..26 : LOWER[i] = c THEN UPPER[CHOOSE i \in 1..26 : LOWER[i] = c] ELSE c

Lower(s) == [i \in 1..Len(s) |-> LowerChar(s[i])]

MatchAt(s, i, p) == i >= 1 /\ i + Len(p) - 1 <= Len(s) /\ \A j \in 1..Len(p) : s[i + j - 1] = p[j]

StartsWith(s, p) == MatchAt(s, 1, p)

Contains(s, p) == \E i \in 1..(Len(s) + 1) : MatchAt(s, i, p)

\* first index k >= i at which s leaves the character class (Len(s)+1 at the end):
\* the end of a greedy \s* or \d* that starts at i
SpaceRunEnd(s, i) == CHOOSE k \in i..(Len(s) + 1) : (\A q \in i..(k - 1) : IsSpace(s[q])) /\ (k = Len(s) + 1 \/ ~IsSpace(s[k]))

DigitRunEnd(s, i) == CHOOSE k \in i..(Len(s) + 1) : (\A q \in i..(k - 1) : IsDigit(s[q])) /\ (k = Len(s) + 1 \/ ~IsDigit(s[k]))

RECURSIVE DigitsToInt(_)
DigitsToInt(s) == IF Len(s) = 0 THEN 0 ELSE 10 * DigitsToInt(SubSeq(s, 1, Len(s) - 1)) + DigitVal(s[Len(s)])

RECURSIVE Pow10(_)
Pow10(n) == IF n = 0 THEN 1 ELSE 10 * Pow10(n - 1)

RemoveDots(s) == SelectSeq(s, LAMBDA c : c # ".")

\* str.isdigit(): non-empty and every character a digit
IsDigitStr(s) == Len(s) > 0 /\ \A i \in 1..Len(s) : IsDigit(s[i])

\* float(s) for a string of digits and dots: a decimal number num / 10^scale,
\* or ValueError when there is more than one dot
FloatOk(s) == IsDigitStr(RemoveDots(s)) /\ Len(s) - Len(RemoveDots(s)) <= 1

DotPos(s) == IF \E i \in 1..Len(s) : s[i] = "." THEN CHOOSE i \in 1..Len(s) : s[i] = "." ELSE Len(s) + 1

FloatNum(s) == DigitsToInt(RemoveDots(s))

FloatScale(s) == IF DotPos(s) > Len(s) THEN 0 ELSE Len(s) - DotPos(s)

\* float(s) < tenths / 10
FloatLess(s, tenths) == FloatNum(s) * 10 < tenths * Pow10(FloatScale(s))

(***************************************************************************)
(* Entries and details.                                                    *)
(*                                                                         *)
(* An entry is None, a value that is not a dict, or the dict built by      *)
(* fetch_rss_feeds: title, summary, link, published, source, source_type,  *)
(* raw_entry (the repr of the feedparser entry) and, in extras, a sequence *)
(* of <<key, value>> pairs for any further key.  A details value is None,  *)
(* not a dict, the empty dict, or a dict whose six fields are each a       *)
(* string, None, NonStr or Missing (key absent).                           *)
(***************************************************************************)
DictGet(v, default) == IF v = Missing THEN default ELSE v

Min(S) == CHOOSE x \in S : \A y \in S : x <= y

\* the function f as a table of its values, each computed once
Tabulated(f) == f @@ << >>

\* \s*(\d+\.?\d*) matched at index a of s: the captured group, or Missing
MagTail(s, a) ==
    IF a > Len(s) + 1 THEN Missing
    ELSE LET b == SpaceRunEnd(s, a)
             c == DigitRunEnd(s, b)
             d == IF c <= Len(s) /\ s[c] = "." THEN c + 1 ELSE c
             e == DigitRunEnd(s, d)
         IN  IF c > b THEN SubSeq(s, b, e - 1) ELSE Missing

\* (?:m|magnitude)\s*(\d+\.?\d*) matched at index j of s
MagAt(s, j) ==
    LET viaM == IF MatchAt(s, j, k_m) THEN MagTail(s, j + Len(k_m)) ELSE Missing
        viaMagnitude == IF MatchAt(s, j, k_magnitude) THEN MagTail(s, j + Len(k_magnitude)) ELSE Missing
    IN  IF viaM # Missing THEN viaM ELSE viaMagnitude

\* re.search(r'(?:^|\s)(?:m|magnitude)\s*(\d+\.?\d*)', s, re.IGNORECASE).group(1),
\* or Missing when there is no match: the leftmost match wins
magnitude_match(s) ==
    LET ls == Lower(s)
        starts == {j \in 1..Len(ls) : (j = 1 \/ IsSpace(ls[j - 1])) /\ MagAt(ls, j) # Missing}
    IN  IF starts = {} THEN Missing ELSE MagAt(ls, Min(starts))

\* re.search(r'alertlevel\s*>\s*green', s, re.IGNORECASE)
alertlevel_green_match(s) ==
    LET ls == Lower(s)
    IN  \E i \in 1..Len(ls) :
            /\ MatchAt(ls, i, k_alertlevel)
            /\ LET g == SpaceRunEnd(ls, i + Len(k_alertlevel))
               IN  /\ MatchAt(ls, g, k_gt)
                   /\ MatchAt(ls, SpaceRunEnd(ls, g + 1), k_green)

\* dict.items() of an entry, in insertion order
EntryItems(e) ==
    << <<key_title, e.title>>, <<key_summary, e.summary>>, <<key_link, e.link>>,
       <<key_published, e.published>>, <<key_source, e.source>>,
       <<key_source_type, e.source_type>>, <<key_raw_entry, e.raw_entry>> >> \o e.extras

RECURSIVE ConcatItems(_)
ConcatItems(items) ==
    IF Len(items) = 0 THEN <<>>
    ELSE <<"'">> \o items[1][1] \o <<"'", ":", " ">> \o items[1][2] \o <<",", " ">> \o ConcatItems(Tail(items))

\* str(entry): the text of every key and value of the dict
StrOfEntry(e) == <<"{">> \o ConcatItems(EntryItems(e)) \o <<"}">>

HasKey(e, key) == \E i \in 1..Len(e.extras) : e.extras[i][1] = key

ExtraGet(e, key) == e.extras[CHOOSE i \in 1..Len(e.extras) : e.extras[i][1] = key][2]

\* entry.get(field, "").lower() of lines 87-90 raises AttributeError on a None value
EntryFieldRaises(e) ==
    \E v \in {e.source_type, e.title, e.summary, e.link} : v # Missing /\ ~IsStr(v)

EntrySourceType(e) == Lower(DictGet(e.source_type, <<>>))

EntryTitle_cased(e) == DictGet(e.title, <<>>)

EntryTitle(e) == Lower(DictGet(e.title, <<>>))

EntrySummary(e) == Lower(DictGet(e.summary, <<>>))

EntryLink(e) == Lower(DictGet(e.link, <<>>))

\* "entry_details and isinstance(entry_details, dict)"
DetailsUsable(d) == d.kind = "dict"

GDACS_EQ_THRESHOLD == 60

USGS_THRESHOLD == 58

\* the earthquake-magnitude rule on the extracted details (lines 152-163 and 191-202):
\* "True", "pass" or "AttributeError" (disaster_type is None or not a string)
details_magnitude_rule(d, tenths) ==
    IF ~DetailsUsable(d) THEN "pass"
    ELSE IF ~IsStr(DictGet(d.disaster_type, <<>>)) THEN "AttributeError"
    ELSE IF Lower(DictGet(d.disaster_type, <<>>)) # k_earthquake THEN "pass"
    ELSE LET magnitude == DictGet(d.severity, <<>>)
         IN  IF IsStr(magnitude) /\ IsDigitStr(RemoveDots(magnitude)) /\ FloatOk(magnitude) /\ FloatLess(magnitude, tenths)
             THEN "True" ELSE "pass"

\* the NOAA SPC rules (lines 93-102)
spc_rule(title, link) ==
    \/ Contains(link, k_md_link) \/ StartsWith(title, k_spc_md)
    \/ Contains(link, k_outlook_link) \/ Contains(Lower(title), k_outlook)

\* GDACS rules 1-4, which read the entry only (lines 105-130)
gdacs_entry_rules(e, title, summ) ==
    \/ StartsWith(title, k_green_sp)
    \/ Contains(title, k_green_alert) \/ Contains(summ, k_green_alert)
    \/ \E i \in 1..Len(EntryItems(e)) :
          LET kv == EntryItems(e)[i]
          IN  /\ Contains(Lower(kv[1]), k_alertlevel)
              /\ kv[1] # key_raw_entry /\ IsStr(kv[2]) /\ Lower(kv[2]) = k_green
    \/ LET raw_xml == StrOfEntry(e)
       IN  /\ Contains(Lower(raw_xml), k_alertlevel) /\ Contains(Lower(raw_xml), k_green)
           /\ alertlevel_green_match(raw_xml)

\* GDACS rule 5 (lines 133-137): "True", "pass" or "AttributeError"
gdacs_alert_level_rule(d) ==
    IF ~DetailsUsable(d) THEN "pass"
    ELSE IF ~IsStr(DictGet(d.alert_level, <<>>)) THEN "AttributeError"
    ELSE IF Lower(DictGet(d.alert_level, <<>>)) = k_green THEN "True" ELSE "pass"

\* GDACS rule 7 (lines 145-149)
gdacs_icon_rule(e) ==
    /\ HasKey(e, k_icon)
    /\ Contains(Lower(ExtraGet(e, k_icon)), k_green)
    /\ Contains(Lower(ExtraGet(e, k_icon)), k_eq)

should_filter_gdacs(e, title, summ, d) ==
    IF gdacs_entry_rules(e, title, summ) THEN "True"
    ELSE IF gdacs_alert_level_rule(d) # "pass" THEN gdacs_alert_level_rule(d)
    ELSE IF Contains(title, k_green_earthquake) THEN "True"
    ELSE IF gdacs_icon_rule(e) THEN "True"
    ELSE IF details_magnitude_rule(d, GDACS_EQ_THRESHOLD) # "pass" THEN details_magnitude_rule(d, GDACS_EQ_THRESHOLD)
    ELSE "False"

\* one magnitude search of the USGS branch: float(group) < 5.8
usgs_low_magnitude(s) == magnitude_match(s) # Missing /\ FloatLess(magnitude_match(s), USGS_THRESHOLD)

should_filter_usgs(title, summ, d) ==
    IF usgs_low_magnitude(title) THEN "True"
    ELSE IF magnitude_match(title) = Missing /\ usgs_low_magnitude(summ) THEN "True"
    ELSE IF details_magnitude_rule(d, USGS_THRESHOLD) # "pass" THEN details_magnitude_rule(d, USGS_THRESHOLD)
    ELSE "False"

\* should_filter_entry(entry, entry_details): "True", "False", or "AttributeError"
\* when the call raises
should_filter_entry(e, d) ==
    IF e.kind = "none" THEN "True"
    ELSE IF e.kind # "dict" THEN "False"
    ELSE IF EntryFieldRaises(e) THEN "AttributeError"
    ELSE IF EntrySourceType(e) = k_noaa_spc /\ spc_rule(EntryTitle(e), EntryLink(e)) THEN "True"
    ELSE IF EntrySourceType(e) = k_gdacs THEN should_filter_gdacs(e, EntryTitle(e), EntrySummary(e), d)
    ELSE IF EntrySourceType(e) = k_usgs THEN should_filter_usgs(EntryTitle(e), EntrySummary(e), d)
    ELSE "False"

(***************************************************************************)
(* normalize_date (process_data.py lines 39-75).                           *)
(*                                                                         *)
(* datetime.strptime compiles the format to a regular expression, matched  *)
(* case-insensitively against the whole string, and then builds the date,  *)
(* which fails on a day the month does not have.  StrpParses computes the  *)
(* set of complete matches of a format; the fields of the ten formats are  *)
(* all delimited by literals, so there is at most one.                     *)
(***************************************************************************)
\* calendar.day_abbr, month_abbr and month_name of the C locale, lower-cased
DAY_ABBR == <<<<"m", "o", "n">>, <<"t", "u", "e">>, <<"w", "e", "d">>, <<"t", "h", "u">>, <<"f", "r", "i">>, <<"s", "a", "t">>, <<"s", "u", "n">>>>

MONTH_ABBR == <<<<"j", "a", "n">>, <<"f", "e", "b">>, <<"m", "a", "r">>, <<"a", "p", "r">>, <<"m", "a", "y">>, <<"j", "u", "n">>, <<"j", "u", "l">>, <<"a", "u", "g">>, <<"s", "e", "p">>, <<"o", "c", "t">>, <<"n", "o", "v">>, <<"d", "e", "c">>>>

MONTH_NAME == <<<<"j", "a", "n", "u", "a", "r", "y">>,
    <<"f", "e", "b", "r", "u", "a", "r", "y">>,
    <<"m", "a", "r", "c", "h">>,
    <<"a", "p", "r", "i", "l">>,
    <<"m", "a", "y">>,
    <<"j", "u", "n", "e">>,
    <<"j", "u", "l", "y">>,
    <<"a", "u", "g", "u", "s", "t">>,
    <<"s", "e", "p", "t", "e", "m", "b", "e", "r">>,
    <<"o", "c", "t", "o", "b", "e", "r">>,
    <<"n", "o", "v", "e", "m", "b", "e", "r">>,
    <<"d", "e", "c", "e", "m", "b", "e", "r">>>>

\* the zone names %Z accepts: utc, gmt and time.tzname (UTC on the deployment host)
TZ_NAMES == <<<<"u", "t", "c">>, <<"g", "m", "t">>>>

\* the formats normalize_date tries, in order; a directive is a two-character token
DATE_FORMATS ==
    << <<"%a", ",", " ", "%d", " ", "%b", " ", "%Y", " ", "%H", ":", "%M", ":", "%S", " ", "%Z">>,
       <<"%Y", "-", "%m", "-", "%d", "T", "%H", ":", "%M", ":", "%S", "Z">>,
       <<"%Y", "-", "%m", "-", "%d", "T", "%H", ":", "%M", ":", "%S", "%z">>,
       <<"%Y", "-", "%m", "-", "%d", " ", "%H", ":", "%M", ":", "%S", " ", "U", "T", "C">>,
       <<"%Y", "-", "%m", "-", "%d", " ", "%H", ":", "%M", ":", "%S">>,
       <<"%Y", "-", "%m", "-", "%d">>,
       <<"%d", " ", "%b", " ", "%Y">>,
       <<"%B", " ", "%d", ",", " ", "%Y">>,
       <<"%m", "/", "%d", "/", "%Y">>,
       <<"%d", "/", "%m", "/", "%Y">> >>

k_unknown_date == <<"U", "n", "k", "n", "o", "w", "n", " ", "D", "a", "t", "e">>  \* "Unknown Date"
k_unknown_type == <<"U", "n", "k", "n", "o", "w", "n", " ", "T", "y", "p", "e">>  \* "Unknown Type"
k_unknown_location == <<"U", "n", "k", "n", "o", "w", "n", " ", "L", "o", "c", "a", "t", "i", "o", "n">>  \* "Unknown Location"

RecursionError == <<"RecursionError">>

TypeError == <<"TypeError">>

DigitsAt(s, pos, n) == pos + n - 1 <= Len(s) /\ \A i \in pos..(pos + n - 1) : IsDigit(s[i])

NumAt(s, pos, n) == DigitsToInt(SubSeq(s, pos, pos + n - 1))

\* the ways a numeric directive matches at pos: each [next, val]; two digits are tried
\* for a value in lo2..hi2, one digit for a value in lo1..9
NumOptions(s, pos, lo2, hi2, lo1) ==
    (IF DigitsAt(s, pos, 2) /\ NumAt(s, pos, 2) \in lo2..hi2 THEN {[next |-> pos + 2, val |-> NumAt(s, pos, 2)]} ELSE {})
    \cup
    (IF DigitsAt(s, pos, 1) /\ NumAt(s, pos, 1) >= lo1 THEN {[next |-> pos + 1, val |-> NumAt(s, pos, 1)]} ELSE {})

\* the ways one name of a table matches at pos, ignoring case: each [next, val]
NameOptions(s, pos, table) ==
    {[next |-> pos + Len(table[i]), val |-> i] : i \in {j \in 1..Len(table) : MatchAt(Lower(s), pos, table[j])}}

\* %z: [+-]\d\d:?[0-5]\d, or a capital Z
ZoneOptions(s, pos) ==
    {[next |-> n, val |-> 0] : n \in
        {q \in {pos + 1, pos + 5, pos + 6} :
            \/ q = pos + 1 /\ MatchAt(s, pos, <<"Z">>)
            \/ q = pos + 5 /\ pos <= Len(s) /\ s[pos] \in {"+", "-"} /\ DigitsAt(s, pos + 1, 4) /\ NumAt(s, pos + 3, 1) <= 5
            \/ q = pos + 6 /\ pos <= Len(s) /\ s[pos] \in {"+", "-"} /\ DigitsAt(s, pos + 1, 2)
                  /\ MatchAt(s, pos + 3, <<":">>) /\ DigitsAt(s, pos + 4, 2) /\ NumAt(s, pos + 4, 1) <= 5}}

\* the ways token tok of a format matches at pos, with the fields parsed so far
TokenOptions(s, pos, tok, acc) ==
    IF tok = "%Y" THEN (IF DigitsAt(s, pos, 4) THEN {[next |-> pos + 4, acc |-> [acc EXCEPT !.y = NumAt(s, pos, 4)]]} ELSE {})
    ELSE IF tok = "%m" THEN {[next |-> o.next, acc |-> [acc EXCEPT !.m = o.val]] : o \in NumOptions(s, pos, 1, 12, 1)}
    ELSE IF tok = "%d" THEN
        {[next |-> o.next, acc |-> [acc EXCEPT !.d = o.val]] : o \in NumOptions(s, pos, 1, 31, 1)}
        \cup (IF MatchAt(s, pos, <<" ">>) /\ DigitsAt(s, pos + 1, 1) /\ NumAt(s, pos + 1, 1) >= 1 THEN {[next |-> pos + 2, acc |-> [acc EXCEPT !.d = NumAt(s, pos + 1, 1)]]} ELSE {})
    ELSE IF tok = "%H" THEN {[next |-> o.next, acc |-> acc] : o \in NumOptions(s, pos, 0, 23, 0)}
    ELSE IF tok = "%M" THEN {[next |-> o.next, acc |-> acc] : o \in NumOptions(s, pos, 0, 59, 0)}
    ELSE IF tok = "%S" THEN {[next |-> o.next, acc |-> [acc EXCEPT !.sec = o.val]] : o \in NumOptions(s, pos, 0, 61, 0)}
    ELSE IF tok = "%a" THEN {[next |-> o.next, acc |-> acc] : o \in NameOptions(s, pos, DAY_ABBR)}
    ELSE IF tok = "%b" THEN {[next |-> o.next, acc |-> [acc EXCEPT !.m = o.val]] : o \in NameOptions(s, pos, MONTH_ABBR)}
    ELSE IF tok = "%B" THEN {[next |-> o.next, acc |-> [acc EXCEPT !.m = o.val]] : o \in NameOptions(s, pos, MONTH_NAME)}
    ELSE IF tok = "%Z" THEN {[next |-> o.next, acc |-> acc] : o \in NameOptions(s, pos, TZ_NAMES)}
    ELSE IF tok = "%z" THEN {[next |-> o.next, acc |-> acc] : o \in ZoneOptions(s, pos)}
    ELSE IF tok = " " THEN {[next |-> n, acc |-> acc] : n \in {q \in (pos + 1)..(Len(s) + 1) : \A i \in pos..(q - 1) : IsSpace(s[i])}}
    ELSE (IF pos <= Len(s) /\ LowerChar(s[pos]) = LowerChar(tok) THEN {[next |-> pos + 1, acc |-> acc]} ELSE {})

RECURSIVE StrpParses(_, _, _, _, _)
StrpParses(s, pos, fmt, k, acc) ==
    IF k > Len(fmt) THEN (IF pos = Len(s) + 1 THEN {acc} ELSE {})
    ELSE UNION {StrpParses(s, o.next, fmt, k + 1, o.acc) : o \in TokenOptions(s, pos, fmt[k], acc)}

IsLeap(y) == (y % 4 = 0 /\ y % 100 # 0) \/ y % 400 = 0

DaysInMonth(y, m) == IF m = 2 THEN (IF IsLeap(y) THEN 29 ELSE 28) ELSE IF m \in {4, 6, 9, 11} THEN 30 ELSE 31

\* the datetime constructor accepts the parsed fields
ValidDate(acc) == acc.y >= 1 /\ acc.d <= DaysInMonth(acc.y, acc.m) /\ acc.sec <= 59

\* datetime.strptime(s, fmt): the set of dates it returns (empty on ValueError)
strptime(s, fmt) == {acc \in StrpParses(s, 1, fmt, 1, [y |-> 1900, m |-> 1, d |-> 1, sec |-> 0]) : ValidDate(acc)}

Digit(n) == DIGITS[n + 1]

\* strftime('%Y-%m-%d')
strftime(acc) ==
    <<Digit(acc.y \div 1000), Digit((acc.y \div 100) % 10), Digit((acc.y \div 10) % 10), Digit(acc.y % 10), "-",
      Digit(acc.m \div 10), Digit(acc.m % 10), "-", Digit(acc.d \div 10), Digit(acc.d % 10)>>

\* the loop of lines 48-63 from format k on: the date of the first format that
\* parses s, formatted, or Missing when none does
RECURSIVE try_formats(_, _)
try_formats(s, k) ==
    IF k > Len(DATE_FORMATS) THEN Missing
    ELSE LET parsed == strptime(s, DATE_FORMATS[k])
         IN  IF parsed # {} THEN strftime(CHOOSE acc \in parsed : TRUE) ELSE try_formats(s, k + 1)

\* (\d{4}[-/]\d{1,2}[-/]\d{1,2}) matched at index i of s: the index after the match, or 0
DateLikeEnd(s, i) ==
    IF ~(DigitsAt(s, i, 4) /\ i + 4 <= Len(s) /\ s[i + 4] \in {"-", "/"} /\ DigitsAt(s, i + 5, 1)) THEN 0
    ELSE LET a == IF DigitsAt(s, i + 5, 2) THEN i + 7 ELSE i + 6
             b == i + 6
             ok(q) == q <= Len(s) /\ s[q] \in {"-", "/"} /\ DigitsAt(s, q + 1, 1)
             sep == IF ok(a) THEN a ELSE IF ok(b) THEN b ELSE 0
         IN  IF sep = 0 THEN 0 ELSE IF DigitsAt(s, sep + 1, 2) THEN sep + 3 ELSE sep + 2

\* re.search(r'(\d{4}[-/]\d{1,2}[-/]\d{1,2})', s).group(1).replace('/', '-'),
\* or Missing when there is no match
extracted_date(s) ==
    LET starts == {i \in 1..Len(s) : DateLikeEnd(s, i) # 0}
    IN  IF starts = {} THEN Missing
        ELSE LET i == Min(starts)
                 g == SubSeq(s, i, DateLikeEnd(s, i) - 1)
             IN  [j \in 1..Len(g) |-> IF g[j] = "/" THEN "-" ELSE g[j]]

\* the depth of Python's call stack that is left to normalize_date
RecursionLimit == 3

RECURSIVE normalize_date_at(_, _)
normalize_date_at(date_str, depth) ==
    IF depth > RecursionLimit THEN RecursionError
    ELSE IF date_str \in {None, Missing, <<>>} THEN k_unknown_date
    ELSE IF date_str = NonStr THEN TypeError
    ELSE LET formatted == try_formats(date_str, 1)
             extracted == extracted_date(date_str)
         IN  IF formatted # Missing THEN formatted
             ELSE IF extracted # Missing THEN normalize_date_at(extracted, depth + 1)
             ELSE k_unknown_date

\* the date texts of the inputs below, normalized once
DateTexts ==
    {<<"2", "0", "2", "4", "-", "1", "2", "-", "3", "1">>,
     <<"N", "o", " ", "P", "u", "b", "l", "i", "s", "h", "e", "d", " ", "D", "a", "t", "e">>,
     <<"2", "0", "2", "4", "-", "0", "2", "-", "3", "0">>,
     <<"T", "u", "e", ",", " ", "3", "1", " ", "D", "e", "c", " ", "2", "0", "2", "4", " ", "1", "4", ":", "0", "0", ":", "0", "0", " ", "G", "M", "T">>,
     <<"2", "0", "2", "4", "-", "1", "2", "-", "3", "1", "T", "1", "4", ":", "0", "0", ":", "0", "0", "Z">>,
     <<"2", "0", "2", "3", "-", "1", "3", "-", "4", "5">>}

NormalizedDates == Tabulated([s \in DateTexts |-> normalize_date_at(s, 0)])

\* normalize_date(date_str): a YYYY-MM-DD string, "Unknown Date", RecursionError when
\* the recursion of line 70 never ends, or TypeError for a value that is not a string
normalize_date(date_str) ==
    IF date_str \in DateTexts THEN NormalizedDates[date_str] ELSE normalize_date_at(date_str, 0)

(***************************************************************************)
(* extract_details_in_batch (process_data.py lines 237-415).               *)
(*                                                                         *)
(* A prepared entry is the dict of prepare_entry_for_extraction.  One      *)
(* answer of the LLM call is a record [kind, results]:                     *)
(*   "APIError", "APIConnectionError", "RateLimitError": the call raises   *)
(*   "Exception":  any other exception of the call (no choices, no text)   *)
(*   "bad_json":   the text is not JSON                                    *)
(*   "results":    {"results": [...]}        "list":  [...]                *)
(*   "single":     one result dict with an id, not wrapped                 *)
(*   "dict_other": a dict with neither "results" nor "id"                  *)
(*   "scalar":     a JSON number, string or null                           *)
(*   "results_not_list": {"results": v}, v null, a number or a string      *)
(* and results is the sequence of result values; a result is a dict        *)
(* (kind "dict", each field a string, None, NonStr or Missing) or a value  *)
(* that is not a dict (kind "nondict").  A details map is a function from  *)
(* ids to details records.                                                 *)
(***************************************************************************)
max_retries_extract == 2

backoff_factor == 2

\* entry['summary'][:100] + "..." if len(entry['summary']) > 100 else entry['summary']
short_description(summ) == IF Len(summ) > 100 THEN SubSeq(summ, 1, 100) \o <<".", ".", ".">> ELSE summ

\* the synthesized record of lines 377-384 and 406-413; its date field is
\* RecursionError when normalize_date(entry['published']) does not return
fallback_record(e) ==
    [kind |-> "dict", disaster_type |-> k_unknown_type, location |-> k_unknown_location,
     date |-> normalize_date(e.published), severity |-> None, alert_level |-> <<>>,
     description |-> short_description(e.summary)]

Raised(date) == date \in {RecursionError, TypeError}

\* "if value" of Python for a field: a non-empty string or a non-string JSON value
Truthy(v) == v \notin {None, Missing, <<>>}

\* the date a result record ends with: lines 361-362 and 368
result_date(r) == IF Truthy(r.date) THEN normalize_date(r.date) ELSE DictGet(r.date, k_unknown_date)

\* the details record of lines 365-372 for result r: result.get(key, default) gives
\* the default only when the key is absent, so a null field stays None
details_of_result(r) ==
    [kind |-> "dict", disaster_type |-> DictGet(r.disaster_type, k_unknown_type),
     location |-> DictGet(r.location, k_unknown_location), date |-> result_date(r),
     severity |-> DictGet(r.severity, None), alert_level |-> DictGet(r.alert_level, <<>>),
     description |-> DictGet(r.description, <<>>)]

EmptyMap == [k \in {} |-> None]

\* lines 332-346: the results array of a parsed answer
results_array(resp) ==
    IF resp.kind \in {"results", "list", "single"} THEN resp.results ELSE <<>>

\* the details records of the results, one per position (a value that is not a
\* dict has none: its position holds a record that is never stored)
result_records(results) == [k \in 1..Len(results) |-> details_of_result(results[k])]

\* lines 357-363 for result k: result.get raises on a value that is not a dict,
\* normalize_date raises on the date of a result that has an id
result_raises(results, records, k) ==
    results[k].kind # "dict" \/ (Truthy(results[k].id) /\ Raised(records[k].date))

\* the results the loop of lines 357-372 stores before one raises
stored_results(results, records) ==
    {k \in 1..Len(results) : Truthy(results[k].id) /\ \A j \in 1..k : ~result_raises(results, records, j)}

\* details_map after the loop: a later result with the same id overwrites an earlier one
stored_map(results, records, stored) ==
    [id \in {results[k].id : k \in stored} |->
        records[CHOOSE k \in stored : results[k].id = id /\ \A j \in stored : results[j].id = id => j <= k]]

\* lines 357-372: the loop over the results; ok is FALSE when a result raises
process_records(results, records) ==
    [ok |-> \A k \in 1..Len(results) : ~result_raises(results, records, k),
     map |-> stored_map(results, records, stored_results(results, records))]

process_results(results) == process_records(results, result_records(results))

\* the fallback record of each entry, by position
fallback_records(entries) == [k \in 1..Len(entries) |-> fallback_record(entries[k])]

\* the entries lines 375-376 find absent from m: of two entries with one id the first
absent_entries(entries, m) ==
    {k \in 1..Len(entries) : entries[k].id \notin DOMAIN m /\ \A j \in 1..(k - 1) : entries[j].id # entries[k].id}

fill_absent(entries, m, records, absent) ==
    [ok |-> \A k \in absent : ~Raised(records[k].date),
     map |-> [id \in DOMAIN m \cup {entries[k].id : k \in absent} |->
                 IF id \in DOMAIN m THEN m[id] ELSE records[CHOOSE k \in absent : entries[k].id = id]]]

\* lines 375-384: fallback records for the entries whose id is not in m; ok is FALSE
\* when normalize_date raises
fill_missing(entries, m) == fill_absent(entries, m, fallback_records(entries), absent_entries(entries, m))

\* lines 374-387 after the loop over the results ended as done
finish_attempt(entries, done) ==
    IF done.ok THEN fill_missing(entries, done.map) ELSE [ok |-> FALSE, map |-> EmptyMap]

\* one iteration of the retry loop (lines 316-397) with answer resp: [ok, map], ok
\* FALSE when the attempt ends in one of the except clauses
attempt_result(entries, resp) ==
    IF resp.kind \in {"APIError", "APIConnectionError", "RateLimitError", "Exception", "bad_json", "results_not_list"}
    THEN [ok |-> FALSE, map |-> EmptyMap]
    ELSE finish_attempt(entries, process_results(results_array(resp)))

\* fallback_details after the loop of lines 405-413: of two entries with one id the
\* second overwrites the first
fallback_map(entries, records) ==
    [id \in {entries[k].id : k \in 1..Len(entries)} |->
        records[CHOOSE k \in 1..Len(entries) : entries[k].id = id /\ \A j \in 1..Len(entries) : entries[j].id = id => j <= k]]

fallback_of_records(entries, records) ==
    [ok |-> \A k \in 1..Len(entries) : ~Raised(records[k].date), map |-> fallback_map(entries, records)]

\* lines 403-415: fallback details for every entry; ok is FALSE when
\* normalize_date raises, which nothing catches here
fallback_details(entries) == fallback_of_records(entries, fallback_records(entries))

\* time.sleep of lines 399-401 after failed attempt number attempt
RECURSIVE Pow(_, _)
Pow(b, n) == IF n = 0 THEN 1 ELSE b * Pow(b, n - 1)

sleep_none(k) == 0

sleep_time(k) == Pow(backoff_factor, k)

\* BeautifulSoup(raw_summary, 'html.parser').get_text(separator=' ') of line 217,
\* for summaries whose tags are closed and that hold no character entity: the text
\* nodes outside the tags, joined by one space.  inside: within a tag; sep: a tag
\* was passed since the last text; any: some text was produced already
RECURSIVE strip_tags(_, _, _, _)
strip_tags(s, inside, sep, any) ==
    IF Len(s) = 0 THEN <<>>
    ELSE IF s[1] = "<" THEN strip_tags(Tail(s), TRUE, TRUE, any)
    ELSE IF inside THEN strip_tags(Tail(s), s[1] # ">", sep, any)
    ELSE (IF sep /\ any THEN <<" ", s[1]>> ELSE <<s[1]>>) \o strip_tags(Tail(s), FALSE, FALSE, TRUE)

\* prepare_entry_for_extraction (lines 207-235)
prepare_entry_for_extraction(e) ==
    [id |-> DictGet(e.link, <<>>), title |-> DictGet(e.title, <<>>),
     summary |-> LET text == IF Contains(e.summary, <<"<">>) THEN strip_tags(e.summary, FALSE, FALSE, FALSE) ELSE e.summary
                 IN  SubSeq(text, 1, IF Len(text) > 1000 THEN 1000 ELSE Len(text)),
     source |-> DictGet(e.source, <<>>), source_type |-> DictGet(e.source_type, <<>>),
     published |-> DictGet(e.published, <<>>)]

(***************************************************************************)
(* Input values: titles, summaries, links and detail fields that make each *)
(* rule of the source fire and not fire.                                   *)
(***************************************************************************)
t_green_flood == <<"G", "r", "e", "e", "n", " ", "f", "l", "o", "o", "d">>  \* "Green flood"
t_GREEN_eq == <<"G", "R", "E", "E", "N", " ", "e", "q">>  \* "GREEN eq"
t_a_green_earthquake == <<"A", " ", "g", "r", "e", "e", "n", " ", "e", "a", "r", "t", "h", "q", "u", "a", "k", "e">>  \* "A green earthquake"
t_green_alert == <<"X", " ", "G", "r", "e", "e", "n", " ", "A", "l", "e", "r", "t">>  \* "X Green Alert"
t_orange_eq == <<"O", "r", "a", "n", "g", "e", " ", "e", "q">>  \* "Orange eq"
t_storm == <<"S", "t", "o", "r", "m">>  \* "Storm"
t_m65 == <<"M", "6", ".", "5", " ", "-", " ", "X">>  \* "M6.5 - X"
t_m30 == <<"M", " ", "3", ".", "0", " ", "-", " ", "Y">>  \* "M 3.0 - Y"
t_m58 == <<"M", "5", ".", "8", " ", "Z">>  \* "M5.8 Z"
t_mag579 == <<"M", "a", "g", "n", "i", "t", "u", "d", "e", " ", "5", ".", "7", "9">>  \* "Magnitude 5.79"
t_quake == <<"Q", "u", "a", "k", "e">>  \* "Quake"
t_spc_md == <<"S", "P", "C", " ", "M", "D", " ", "1", "2">>  \* "SPC MD 12"
t_outlook == <<"D", "a", "y", " ", "1", " ", "O", "u", "t", "l", "o", "o", "k">>  \* "Day 1 Outlook"
sum_empty == <<>>  \* ""
sum_green_alert == <<"a", " ", "g", "r", "e", "e", "n", " ", "a", "l", "e", "r", "t">>  \* "a green alert"
sum_m41 == <<"<", "p", ">", " ", "m", " ", "4", ".", "1">>  \* "<p> m 4.1"
sum_mag60 == <<"M", "a", "g", "n", "i", "t", "u", "d", "e", " ", "6", ".", "0">>  \* "Magnitude 6.0"
l_a == <<"h", "t", "t", "p", ":", "/", "/", "a">>  \* "http://a"
l_b == <<"h", "t", "t", "p", ":", "/", "/", "b">>  \* "http://b"
l_c == <<"h", "t", "t", "p", ":", "/", "/", "c">>  \* "http://c"
l_md == <<"h", "t", "t", "p", ":", "/", "/", "s", "/", "m", "d", "/", "1">>  \* "http://s/md/1"
l_outlook == <<"h", "t", "t", "p", ":", "/", "/", "s", "/", "O", "U", "T", "L", "O", "O", "K", "/", "2">>  \* "http://s/OUTLOOK/2"
raw_plain == <<"{", "}">>  \* "{}"
raw_alertlevel == <<"a", "l", "e", "r", "t", "l", "e", "v", "e", "l", ">", " ", "G", "r", "e", "e", "n">>  \* "alertlevel> Green"
x_gdacs_alertlevel == <<"g", "d", "a", "c", "s", "_", "a", "l", "e", "r", "t", "l", "e", "v", "e", "l">>  \* "gdacs_alertlevel"
x_Green == <<"G", "r", "e", "e", "n">>  \* "Green"
x_icon_green_eq == <<"G", "r", "e", "e", "n", "/", "E", "Q", ".", "p", "n", "g">>  \* "Green/EQ.png"
v_Earthquake == <<"E", "a", "r", "t", "h", "q", "u", "a", "k", "e">>  \* "Earthquake"
v_Flood == <<"F", "l", "o", "o", "d">>  \* "Flood"
v_orange == <<"o", "r", "a", "n", "g", "e">>  \* "orange"
v_57 == <<"5", ".", "7">>  \* "5.7"
v_59 == <<"5", ".", "9">>  \* "5.9"
v_62 == <<"6", ".", "2">>  \* "6.2"
v_571 == <<"5", ".", "7", ".", "1">>  \* "5.7.1"
src_feed == <<"F", "e", "e", "d">>  \* "Feed"
pub_iso == <<"2", "0", "2", "4", "-", "1", "2", "-", "3", "1">>  \* "2024-12-31"

Entry(st, title, summ, link, raw, extras) ==
    [kind |-> "dict", source_type |-> st, title |-> title, summary |-> summ, link |-> link,
     published |-> pub_iso, source |-> src_feed, raw_entry |-> raw, extras |-> extras]

\* entry = None, and an entry that is not a dict (a string, a number, a list)
NoneEntry == [Entry(None, <<>>, <<>>, <<>>, <<>>, <<>>) EXCEPT !.kind = "none"]

NonDictEntry == [Entry(None, <<>>, <<>>, <<>>, <<>>, <<>>) EXCEPT !.kind = "nondict"]

Details(kind, dt, sev, al) ==
    [kind |-> kind, disaster_type |-> dt, location |-> Missing, date |-> Missing,
     severity |-> sev, alert_level |-> al, description |-> Missing]

\* entry_details = None (the default), a value that is not a dict, the empty dict
NoDetails == Details("none", Missing, Missing, Missing)

NonDictDetails == Details("nondict", Missing, Missing, Missing)

EmptyDetails == Details("empty", Missing, Missing, Missing)

GdacsEntries ==
    {Entry(k_gdacs, t, s, l_a, r, x) :
        t \in {t_green_flood, t_GREEN_eq, t_a_green_earthquake, t_green_alert, t_orange_eq, t_storm},
        s \in {sum_empty, sum_green_alert},
        r \in {raw_plain, raw_alertlevel},
        x \in {<<>>, << <<x_gdacs_alertlevel, x_Green>> >>, << <<k_icon, x_icon_green_eq>> >>}}

UsgsEntries ==
    {Entry(k_usgs, t, s, l_b, raw_plain, <<>>) :
        t \in {t_m65, t_m30, t_m58, t_mag579, t_quake},
        s \in {sum_empty, sum_m41, sum_mag60}}

SpcEntries ==
    {Entry(k_noaa_spc, t, sum_empty, l, raw_plain, <<>>) :
        t \in {t_spc_md, t_outlook, t_storm}, l \in {l_c, l_md, l_outlook}}

\* the source types fetch_rss_feeds gives that have no rule, with None for a feed
\* URL that matches no pattern (fetch_feeds.py line 218)
OtherEntries ==
    {Entry(st, t, sum_m41, l_md, raw_alertlevel, <<>>) :
        st \in {None, k_nhc, k_reliefweb, k_inciweb}, t \in {t_green_flood, t_m30, t_spc_md}}

FilterEntries == GdacsEntries \cup UsgsEntries \cup SpcEntries \cup OtherEntries \cup {NoneEntry, NonDictEntry}

FilterDetails ==
    {NoDetails, NonDictDetails, EmptyDetails} \cup
    {Details("dict", dt, sev, al) :
        dt \in {None, v_Earthquake, v_Flood},
        sev \in {None, NonStr, v_57, v_59, v_62, v_571},
        al \in {None, <<>>, x_Green, v_orange}}

(***************************************************************************)
(* Inputs of extract_details_in_batch: batches of at most MaxBatch         *)
(* prepared entries, two of them with the same link and one whose          *)
(* published text holds a date no calendar has, and answers of at most     *)
(* MaxResults results.                                                     *)
(***************************************************************************)
l_x == <<"h", "t", "t", "p", ":", "/", "/", "x">>  \* "http://x"
pub_none == <<"N", "o", " ", "P", "u", "b", "l", "i", "s", "h", "e", "d", " ", "D", "a", "t", "e">>  \* "No Published Date"
pub_bad == <<"2", "0", "2", "4", "-", "0", "2", "-", "3", "0">>  \* "2024-02-30"
pub_rfc == <<"T", "u", "e", ",", " ", "3", "1", " ", "D", "e", "c", " ", "2", "0", "2", "4", " ", "1", "4", ":", "0", "0", ":", "0", "0", " ", "G", "M", "T">>  \* "Tue, 31 Dec 2024 14:00:00 GMT"
v_X == <<"X">>  \* "X"
v_date == <<"2", "0", "2", "4", "-", "1", "2", "-", "3", "1", "T", "1", "4", ":", "0", "0", ":", "0", "0", "Z">>  \* "2024-12-31T14:00:00Z"
v_datebad == <<"2", "0", "2", "3", "-", "1", "3", "-", "4", "5">>  \* "2023-13-45"
v_desc == <<"d", "e", "s", "c">>  \* "desc"
t_dup == <<"M", "6", ".", "5", " ", "a", "g", "a", "i", "n">>  \* "M6.5 again"

MaxBatch == 2

MaxResults == 2

SeqsUpTo(S, n) == UNION {[1..k -> S] : k \in 0..n}

FeedEntry(st, title, summ, link, published) ==
    [Entry(st, title, summ, link, raw_plain, <<>>) EXCEPT !.published = published]

entry_a == FeedEntry(k_usgs, t_m65, sum_mag60, l_a, pub_rfc)

entry_b == FeedEntry(k_gdacs, t_orange_eq, sum_m41, l_b, pub_none)

entry_bad_date == FeedEntry(k_nhc, t_storm, sum_empty, l_c, pub_bad)

entry_a_again == FeedEntry(k_usgs, t_dup, sum_empty, l_a, pub_iso)

PreparedEntries == {prepare_entry_for_extraction(e) : e \in {entry_a, entry_b, entry_bad_date, entry_a_again}}

Batches == SeqsUpTo(PreparedEntries, MaxBatch)

Result(id, dt, loc, date, sev, al, desc) ==
    [kind |-> "dict", id |-> id, disaster_type |-> dt, location |-> loc, date |-> date,
     severity |-> sev, alert_level |-> al, description |-> desc]

NonDictResult == [Result(Missing, Missing, Missing, Missing, Missing, Missing, Missing) EXCEPT !.kind = "nondict"]

\* a complete record, a record whose fields are all null, a record with the id only
FullResult(id) == Result(id, v_Earthquake, v_X, v_date, v_57, <<>>, v_desc)

NullResult(id) == Result(id, None, None, None, None, None, None)

BareResult(id) == Result(id, Missing, Missing, Missing, Missing, Missing, Missing)

Results ==
    {FullResult(l_a), NullResult(l_a), BareResult(l_a), FullResult(l_b), FullResult(l_x),
     NullResult(None), NonDictResult, [FullResult(l_a) EXCEPT !.date = v_datebad]}

Answer(kind, results) == [kind |-> kind, results |-> results]

Answers ==
    {Answer(k, <<>>) : k \in {"APIError", "APIConnectionError", "RateLimitError", "Exception", "bad_json",
                              "results_not_list", "dict_other", "scalar"}}
    \cup {Answer(k, rs) : k \in {"results", "list"}, rs \in SeqsUpTo(Results, MaxResults)}
    \cup {Answer("single", <<r>>) : r \in {x \in Results : x.kind = "dict" /\ x.id # Missing}}

(***************************************************************************)
(* The cycle of main.py: the sent ledger (table sent_entries, link ->      *)
(* timestamp, time counted in days), process_disasters and                 *)
(* send_disaster_alert_block as main() uses them.                          *)
(***************************************************************************)
RETENTION_DAYS == 30

EmptyLedger == [l \in {} |-> 0]

\* the elements of s at the positions in keep, in order
RECURSIVE SelectIndexes(_, _, _)
SelectIndexes(s, keep, k) ==
    IF k > Len(s) THEN <<>>
    ELSE (IF k \in keep THEN <<s[k]>> ELSE <<>>) \o SelectIndexes(s, keep, k + 1)

cleanup_nothing(rows, today) == rows

\* INSERT OR REPLACE: the row of a link already present gets a new timestamp
save_replacing(rows, new_links, today) ==
    [l \in DOMAIN rows \cup {new_links[k] : k \in 1..Len(new_links)} |->
        IF l \in {new_links[k] : k \in 1..Len(new_links)} THEN today ELSE rows[l]]

\* DELETE FROM sent_entries WHERE timestamp < datetime('now', '-30 day')
cleanup_old_entries(rows, today) ==
    [l \in {x \in DOMAIN rows : ~(rows[x] < today - RETENTION_DAYS)} |-> rows[l]]

access_twice(log, statement) == Append(Append(log, statement), statement)

\* sqlite3.connect(DB_PATH) and one statement on its cursor (main.py lines 74-76,
\* 93-95 and 110-113): log is the list of the statements of the cycle
ledger_access(log, statement) == Append(log, statement)

load_despite_failure(rows, db_ok) == DOMAIN rows

\* SELECT link FROM sent_entries; set() when the read fails
load_sent_entries(rows, db_ok) == IF db_ok THEN DOMAIN rows ELSE {}

\* INSERT OR IGNORE INTO sent_entries (link, timestamp) VALUES (?, CURRENT_TIMESTAMP)
save_sent_entries(rows, new_links, today) ==
    [l \in DOMAIN rows \cup {new_links[k] : k \in 1..Len(new_links)} |-> IF l \in DOMAIN rows THEN rows[l] ELSE today]

filter_nothing(fetched, sent) == fetched

\* new_disasters = [d for d in disasters if d['link'] not in sent_entries]
filter_already_sent(fetched, sent) ==
    SelectIndexes(fetched, {k \in 1..Len(fetched) : fetched[k].link \notin sent}, 1)

\* new_links = [d['link'] for d in new_disasters]
links_of(entries) == [k \in 1..Len(entries) |-> entries[k].link]

(***************************************************************************)
(* send_disaster_alert_block (send_to_slack.py lines 21-128) with token    *)
(* and channel configured: responses[k] is what Slack does with the k-th   *)
(* post of the blocks.  "invalid_blocks_exception" is the answer           *)
(* invalid_blocks followed by a plain-text post (lines 80-84) that raises  *)
(* an exception other than SlackApiError, which no except clause catches.  *)
(***************************************************************************)
max_retries_send == 3

SlackOutcomes ==
    {"ok", "invalid_blocks", "invalid_blocks_exception", "channel_not_found", "not_in_channel", "rate_limited",
     "api_error", "exception"}

RECURSIVE send_from(_, _)
send_from(responses, k) ==
    IF k > max_retries_send THEN "False"
    ELSE IF responses[k] = "ok" THEN "True"
    ELSE IF responses[k] \in {"invalid_blocks", "channel_not_found", "not_in_channel"} THEN "False"
    ELSE IF responses[k] = "invalid_blocks_exception" THEN "raised"
    ELSE send_from(responses, k + 1)

send_disaster_alert_block(responses) == send_from(responses, 1)

(***************************************************************************)
(* process_disasters (process_data.py lines 520-678) and group_disasters   *)
(* (lines 435-518).  A cycle handles fewer than BATCH_SIZE entries, so     *)
(* the loop of lines 455-460 makes one batch.  The LLM of a cycle is a     *)
(* pair of modes: extract, what it answers to each extraction call, and    *)
(* summary, what the summarization calls give.                             *)
(***************************************************************************)
ExtractModes == {"high", "low", "null", "fail"}

SummaryModes == {"text", "empty", "fail"}

\* the answer of the extraction model to a batch
llm_answer(mode, entries) ==
    IF mode = "fail" THEN Answer("APIError", <<>>)
    ELSE Answer("results",
                [k \in 1..Len(entries) |->
                    IF mode = "null" THEN NullResult(entries[k].id)
                    ELSE IF mode = "low" THEN FullResult(entries[k].id)
                    ELSE [FullResult(entries[k].id) EXCEPT !.severity = v_62]])

\* extract_details_in_batch when the LLM gives the same answer at each attempt
extract_outcome(first, fallback) ==
    IF first.ok THEN [outcome |-> "returned", map |-> first.map]
    ELSE IF fallback.ok THEN [outcome |-> "returned", map |-> fallback.map]
    ELSE [outcome |-> "raised", map |-> EmptyMap]

extract_details_in_batch(entries, resp) ==
    extract_outcome(attempt_result(entries, resp), fallback_details(entries))

NoSummary == [kind |-> "none", links |-> <<>>]

EmptySummary == [kind |-> "empty", links |-> <<>>]

TextSummary(links) == [kind |-> "text", links |-> links]

plain_results_all_pass(new) == [k \in 1..Len(new) |-> "False"]

\* line 442: should_filter_entry(d) for each entry
plain_results(new) == [k \in 1..Len(new) |-> should_filter_entry(new[k], NoDetails)]

\* line 477: should_filter_entry(disaster, details) for each entry that passed line 442
details_results(kept, dmap) ==
    [k \in 1..Len(kept) |-> should_filter_entry(kept[k], dmap[kept[k].link])]

\* lines 463-516: the entries that are grouped; an error of the filter keeps the entry
grouped_entries(kept, results) == SelectIndexes(kept, {k \in 1..Len(kept) : results[k] # "True"}, 1)

group_extracted(kept, extracted) ==
    IF extracted.outcome = "raised" THEN [outcome |-> "raised", members |-> <<>>]
    ELSE [outcome |-> "returned", members |-> grouped_entries(kept, details_results(kept, extracted.map))]

prepared_entries(kept) == [k \in 1..Len(kept) |-> prepare_entry_for_extraction(kept[k])]

\* lines 444-460
group_kept(kept, mode) ==
    IF Len(kept) = 0 THEN [outcome |-> "returned", members |-> <<>>]
    ELSE group_extracted(kept, extract_details_in_batch(prepared_entries(kept), llm_answer(mode, prepared_entries(kept))))

\* line 442: an exception of should_filter_entry leaves group_disasters
group_filtered(new, plain, mode) ==
    IF \E k \in 1..Len(new) : plain[k] = "AttributeError" THEN [outcome |-> "raised", members |-> <<>>]
    ELSE group_kept(SelectIndexes(new, {k \in 1..Len(new) : plain[k] = "False"}, 1), mode)

group_disasters(new, mode) == group_filtered(new, plain_results(new), mode)

\* lines 525-678 once group_disasters ended as grouped
summarize(g, mode) ==
    IF g.outcome = "raised" THEN [outcome |-> "raised", summary |-> NoSummary]
    ELSE IF Len(g.members) = 0 THEN [outcome |-> "returned", summary |-> NoSummary]
    ELSE [outcome |-> "returned",
          summary |-> IF mode = "text" THEN TextSummary(links_of(g.members))
                      ELSE IF mode = "empty" THEN EmptySummary ELSE NoSummary]

process_disasters_of(new, llm) == summarize(group_disasters(new, llm.extract), llm.summary)

(***************************************************************************)
(* What a cycle fetches: at most MaxFetched entries, among them one the    *)
(* filter suppresses, one with a date no calendar has and one of a feed    *)
(* whose URL matches no source pattern.                                    *)
(***************************************************************************)
l_d == <<"h", "t", "t", "p", ":", "/", "/", "d">>  \* "http://d"

entry_low == FeedEntry(k_usgs, t_m30, sum_empty, l_b, pub_iso)

entry_unmatched == FeedEntry(None, t_storm, sum_empty, l_d, pub_iso)

FeedCatalog == {entry_a, entry_low, entry_bad_date, entry_unmatched}

MaxFetched == 2

\* a fetch returns an entry once
Fetches == {f \in SeqsUpTo(FeedCatalog, MaxFetched) : \A i, j \in 1..Len(f) : f[i] = f[j] => i = j}

MaxCycles == 2

ElapsedDays == {1, 30, 31}

LLMs == [extract : ExtractModes, summary : SummaryModes]

SlackBehaviours == [1..max_retries_send -> SlackOutcomes]

\* what send_disaster_alert_block returns, over the behaviours of Slack
SendResults == {send_disaster_alert_block(responses) : responses \in SlackBehaviours}

\* the LLM once its calls succeed: extraction answers, summarization gives a text
HealthyLLMs == {llm \in LLMs : llm.extract # "fail" /\ llm.summary = "text"}

\* the links a notification has carried to the channel: those of the summary
\* when send_disaster_alert_block returned True
notified(links, sent_summary, result) ==
    IF result = "True" THEN links \cup {sent_summary.links[k] : k \in DOMAIN sent_summary.links}
    ELSE links

\* process_disasters, computed once for each list of new entries and each LLM
ProcessedFetches == Tabulated([new \in Fetches |-> Tabulated([llm \in LLMs |-> process_disasters_of(new, llm)])])

process_disasters(new, llm) == ProcessedFetches[new][llm]

(***************************************************************************)
(* The group key of group_disasters (process_data.py lines 484-506) and    *)
(* the member it appends (lines 509-516).  The details are records of      *)
(* extract_details_in_batch: every key is present, a value is a string,    *)
(* None or, for alert_level, a JSON value that is not a string.            *)
(***************************************************************************)
k_None == <<"N", "o", "n", "e">>  \* "None"
k_open == <<" ", "(">>  \* " ("
k_alert_in == <<" ", "A", "l", "e", "r", "t", ")", " ", "i", "n", " ">>  \* " Alert) in "
k_close_in == <<")", " ", "i", "n", " ">>  \* ") in "
k_in == <<" ", "i", "n", " ">>  \* " in "
k_on == <<" ", "o", "n", " ">>  \* " on "
k_md == <<"m", "d">>  \* "md"
k_swd == <<"S", "e", "v", "e", "r", "e", " ", "W", "e", "a", "t", "h", "e", "r", " ", "D", "i", "s", "c", "u", "s", "s", "i", "o", "n", " ", "(", "M", "D", " ">>  \* "Severe Weather Discussion (MD "
k_close == <<")">>  \* ")"

\* the text an f-string gives for a value: str(None) is "None"
PyStr(v) == IF v = None THEN k_None ELSE v

capitalize_not(s) == s

\* str.capitalize(): the first character in upper case, the others in lower case
capitalize(s) == [i \in 1..Len(s) |-> IF i = 1 THEN UpperChar(s[i]) ELSE LowerChar(s[i])]

\* md\s+(\d+) matched at index i of s: the captured group, or Missing
MdAt(s, i) ==
    IF ~MatchAt(s, i, k_md) THEN Missing
    ELSE LET b == SpaceRunEnd(s, i + Len(k_md))
             c == DigitRunEnd(s, b)
         IN  IF b > i + Len(k_md) /\ c > b THEN SubSeq(s, b, c - 1) ELSE Missing

\* re.search(r'md\s+(\d+)', title.lower()).group(1), or Missing: the leftmost match
md_number(title) ==
    LET ls == Lower(title)
        starts == {i \in 1..Len(ls) : MdAt(ls, i) # Missing}
    IN  IF starts = {} THEN Missing ELSE MdAt(ls, Min(starts))

override_never(disaster) == Missing

\* lines 501-506: the key of the SPC Mesoscale Discussion override, or Missing when
\* the override does not apply
md_override(disaster) ==
    IF disaster.source_type = k_noaa_spc /\ Contains(Lower(DictGet(disaster.title, <<>>)), k_spc_md)
          /\ md_number(DictGet(disaster.title, <<>>)) # Missing
    THEN k_swd \o md_number(DictGet(disaster.title, <<>>)) \o k_close
    ELSE Missing

\* line 491: the alert-level form of the key is chosen
uses_alert_level(disaster, details) == disaster.source_type = k_gdacs /\ Truthy(details.alert_level)

\* line 492: .capitalize() raises AttributeError on a value that is not a string
key_raises(disaster, details) == uses_alert_level(disaster, details) /\ ~IsStr(details.alert_level)

\* lines 485-498: the key before the override
base_key(disaster, details) ==
    LET disaster_type == PyStr(DictGet(details.disaster_type, k_unknown_type))
        location == PyStr(DictGet(details.location, k_unknown_location))
        date == PyStr(DictGet(details.date, k_unknown_date))
        severity == DictGet(details.severity, None)
    IN  IF uses_alert_level(disaster, details)
        THEN disaster_type \o k_open \o capitalize(details.alert_level) \o k_alert_in \o location \o k_on \o date
        ELSE IF Truthy(severity)
        THEN disaster_type \o k_open \o PyStr(severity) \o k_close_in \o location \o k_on \o date
        ELSE disaster_type \o k_in \o location \o k_on \o date

group_key_of_link(disaster, details) == disaster.link

\* lines 485-506: the key of an entry whose key construction does not raise
group_key(disaster, details) ==
    IF md_override(disaster) # Missing THEN md_override(disaster) ELSE base_key(disaster, details)

\* lines 509-516: the member appended to grouped[key]
group_member(disaster, details) ==
    [title |-> disaster.title, summary |-> DictGet(disaster.summary, <<>>), link |-> disaster.link,
     published |-> disaster.published, source |-> disaster.source, details |-> details]

\* grouped[key].append(member) on a defaultdict(list)
append_to_group(g, key, member) ==
    [k \in DOMAIN g \cup {key} |-> IF k = key THEN (IF key \in DOMAIN g THEN Append(g[key], member) ELSE <<member>>) ELSE g[k]]

(***************************************************************************)
(* Inputs of group_disasters: lists of at most MaxFetched distinct new     *)
(* entries, and for each kept entry what the extraction model answers.     *)
(***************************************************************************)
l_e == <<"h", "t", "t", "p", ":", "/", "/", "e">>  \* "http://e"
l_f == <<"h", "t", "t", "p", ":", "/", "/", "f">>  \* "http://f"
l_g == <<"h", "t", "t", "p", ":", "/", "/", "g">>  \* "http://g"
t_update_md12 == <<"U", "p", "d", "a", "t", "e", " ", "S", "P", "C", " ", "M", "D", " ", "1", "2">>  \* "Update SPC MD 12"
t_later_md12 == <<"l", "a", "t", "e", "r", " ", "s", "p", "c", " ", "m", "d", " ", " ", "1", "2">>  \* "later spc md  12"
t_md_only == <<"M", "D", " ", "1", "2", " ", "i", "s", "s", "u", "e", "d">>  \* "MD 12 issued"
v_ORANGE == <<"O", "R", "A", "N", "G", "E">>  \* "ORANGE"

entry_gdacs == FeedEntry(k_gdacs, t_orange_eq, sum_empty, l_c, pub_iso)

entry_spc_update == FeedEntry(k_noaa_spc, t_update_md12, sum_empty, l_e, pub_iso)

entry_spc_later == FeedEntry(k_noaa_spc, t_later_md12, sum_empty, l_f, pub_iso)

entry_md_only == FeedEntry(k_noaa_spc, t_md_only, sum_empty, l_g, pub_iso)

\* the report of entry_a as another feed gives it: the same title under another link
entry_a_other == FeedEntry(k_usgs, t_m65, sum_empty, l_x, pub_iso)

GroupCatalog == {entry_a, entry_a_other, entry_low, entry_gdacs, entry_spc_update, entry_spc_later, entry_md_only, entry_unmatched}

GroupInputs == {f \in SeqsUpTo(GroupCatalog, MaxFetched) : \A i, j \in 1..Len(f) : f[i] = f[j] => i = j}

\* the results the model gives for one id: a low earthquake, a high one, one with
\* an alert level, one whose fields are all null and one whose alert_level is not a
\* string
GroupResults(id) ==
    {FullResult(id),
     [FullResult(id) EXCEPT !.severity = v_62],
     [FullResult(id) EXCEPT !.severity = v_62, !.alert_level = v_ORANGE],
     NullResult(id),
     [FullResult(id) EXCEPT !.severity = v_62, !.alert_level = NonStr]}

\* the answers to a batch: one result per entry, or a call that fails
GroupAnswers(entries) ==
    {Answer("APIError", <<>>)} \cup
    {Answer("results", rs) : rs \in {r \in [1..Len(entries) -> UNION {GroupResults(entries[k].id) : k \in 1..Len(entries)}] :
                                        \A k \in 1..Len(entries) : r[k].id = entries[k].id}}

(***************************************************************************)
(* fetch_rss_feeds (fetch_feeds.py lines 52-303).  A source is a record    *)
(* [url, title, items]: the feed URL (None or "" when the environment      *)
(* variable is not set), the title of the feed (Missing when it has none)  *)
(* and the items of its XML, each a record of its elements, Missing for an *)
(* element the item does not have.                                         *)
(***************************************************************************)
k_gdacs_org == <<"g", "d", "a", "c", "s", ".", "o", "r", "g">>  \* "gdacs.org"
k_reliefweb_int == <<"r", "e", "l", "i", "e", "f", "w", "e", "b", ".", "i", "n", "t">>  \* "reliefweb.int"
k_wildfire_gov == <<"w", "i", "l", "d", "f", "i", "r", "e", ".", "g", "o", "v">>  \* "wildfire.gov"
k_spc_noaa_gov == <<"s", "p", "c", ".", "n", "o", "a", "a", ".", "g", "o", "v">>  \* "spc.noaa.gov"
k_usgs_gov == <<"u", "s", "g", "s", ".", "g", "o", "v">>  \* "usgs.gov"
k_nhc_noaa_gov == <<"n", "h", "c", ".", "n", "o", "a", "a", ".", "g", "o", "v">>  \* "nhc.noaa.gov"
k_unknown_source == <<"U", "n", "k", "n", "o", "w", "n", " ", "S", "o", "u", "r", "c", "e">>  \* "Unknown Source"
k_title_gdacs == <<"G", "D", "A", "C", "S", " ", "R", "S", "S", " ", "i", "n", "f", "o", "r", "m", "a", "t", "i", "o", "n">>  \* "GDACS RSS information"
k_title_reliefweb == <<"R", "e", "l", "i", "e", "f", "W", "e", "b", " ", "-", " ", "D", "i", "s", "a", "s", "t", "e", "r", "s">>  \* "ReliefWeb - Disasters"
k_title_inciweb == <<"I", "n", "c", "i", "W", "e", "b">>  \* "InciWeb"
k_title_spc == <<"S", "P", "C", " ", "F", "o", "r", "e", "c", "a", "s", "t", " ", "P", "r", "o", "d", "u", "c", "t", "s">>  \* "SPC Forecast Products"
k_title_usgs == <<"U", "S", "G", "S", " ", "M", "a", "g", "n", "i", "t", "u", "d", "e", " ", "4", ".", "5", "+", " ", "E", "a", "r", "t", "h", "q", "u", "a", "k", "e", "s">>  \* "USGS Magnitude 4.5+ Earthquakes"
k_title_nhc == <<"N", "a", "t", "i", "o", "n", "a", "l", " ", "H", "u", "r", "r", "i", "c", "a", "n", "e", " ", "C", "e", "n", "t", "e", "r">>  \* "National Hurricane Center"
k_no_title == <<"N", "o", " ", "T", "i", "t", "l", "e">>  \* "No Title"
k_no_summary == <<"N", "o", " ", "S", "u", "m", "m", "a", "r", "y">>  \* "No Summary"
k_no_link == <<"N", "o", " ", "L", "i", "n", "k">>  \* "No Link"
k_no_published == <<"N", "o", " ", "P", "u", "b", "l", "i", "s", "h", "e", "d", " ", "D", "a", "t", "e">>  \* "No Published Date"
k_alertlevel_gt_green == <<"g", "d", "a", "c", "s", ":", "a", "l", "e", "r", "t", "l", "e", "v", "e", "l", ">", "g", "r", "e", "e", "n">>  \* "gdacs:alertlevel>green"
key_updated == <<"u", "p", "d", "a", "t", "e", "d">>  \* "updated"
key_gdacs_alertlevel == <<"g", "d", "a", "c", "s", "_", "a", "l", "e", "r", "t", "l", "e", "v", "e", "l">>  \* "gdacs_alertlevel"

\* lines 217-231: the source type of a feed URL, None when no pattern matches
feed_source_type(url) ==
    LET feed_source_url == Lower(url)
    IN  IF Contains(feed_source_url, k_gdacs_org) THEN k_gdacs
        ELSE IF Contains(feed_source_url, k_reliefweb_int) THEN k_reliefweb
        ELSE IF Contains(feed_source_url, k_wildfire_gov) THEN k_inciweb
        ELSE IF Contains(feed_source_url, k_spc_noaa_gov) THEN k_noaa_spc
        ELSE IF Contains(feed_source_url, k_usgs_gov) THEN k_usgs
        ELSE IF Contains(feed_source_url, k_nhc_noaa_gov) THEN k_nhc
        ELSE None

\* lines 234-253: the title of the feed, or the default title of its URL
feed_title(source) ==
    LET feed_source_url == Lower(source.url)
    IN  IF DictGet(source.title, k_unknown_source) # k_unknown_source THEN source.title
        ELSE IF Contains(feed_source_url, k_gdacs_org) THEN k_title_gdacs
        ELSE IF Contains(feed_source_url, k_reliefweb_int) THEN k_title_reliefweb
        ELSE IF Contains(feed_source_url, k_wildfire_gov) THEN k_title_inciweb
        ELSE IF Contains(feed_source_url, k_spc_noaa_gov) THEN k_title_spc
        ELSE IF Contains(feed_source_url, k_usgs_gov) THEN k_title_usgs
        ELSE IF Contains(feed_source_url, k_nhc_noaa_gov) THEN k_title_nhc
        ELSE k_unknown_source

\* lines 117-124: the GDACS item is a green alert for the XML pre-filter
prefilter_gdacs_green(item) ==
    \/ item.alertlevel # Missing /\ Lower(item.alertlevel) = k_green
    \/ item.title \notin {Missing, <<>>} /\ StartsWith(Lower(item.title), k_green_sp)

\* lines 185-193: the SPC item is a Mesoscale Discussion or an Outlook for the XML
\* pre-filter
prefilter_spc_report(item) ==
    \/ item.link \notin {Missing, <<>>}
          /\ (Contains(Lower(item.link), k_md_link) \/ Contains(Lower(item.link), k_outlook_link))
    \/ item.title \notin {Missing, <<>>}
          /\ (StartsWith(Lower(item.title), k_spc_md) \/ Contains(Lower(item.title), k_outlook))

\* lines 78-211: the items feedparser is given; a pre-filter that fails (the except
\* clauses of lines 141 and 209) leaves the content as it was received
prefiltered_items(source, prefilter_ok) ==
    IF ~prefilter_ok THEN source.items
    ELSE IF Contains(Lower(source.url), k_gdacs_org) /\ Contains(Lower(source.url), k_spc_noaa_gov)
    THEN SelectSeq(source.items, LAMBDA item : ~prefilter_gdacs_green(item) /\ ~prefilter_spc_report(item))
    ELSE IF Contains(Lower(source.url), k_gdacs_org)
    THEN SelectSeq(source.items, LAMBDA item : ~prefilter_gdacs_green(item))
    ELSE IF Contains(Lower(source.url), k_spc_noaa_gov)
    THEN SelectSeq(source.items, LAMBDA item : ~prefilter_spc_report(item))
    ELSE source.items

\* str(entry) of the feedparser entry of an item: the keys and values it has
item_str(item) ==
    <<"{">> \o ConcatItems(SelectSeq(<< <<key_title, item.title>>, <<key_summary, item.summary>>, <<key_link, item.link>>,
                                        <<key_published, item.published>>, <<key_updated, item.updated>>,
                                        <<key_gdacs_alertlevel, item.alertlevel>> >>,
                                     LAMBDA kv : kv[2] # Missing)) \o <<"}">>

\* lines 261-264: the fields of the report of an item, with their fallbacks
item_title(item) == DictGet(item.title, k_no_title)

item_summary(item) == DictGet(item.summary, DictGet(item.description, k_no_summary))

item_link(item) == DictGet(item.link, k_no_link)

item_published(item) == DictGet(item.published, DictGet(item.updated, k_no_published))

final_filtered_never(item, source_type) == FALSE

\* lines 267-284: the filters of the feedparser stage
final_filtered(item, source_type) ==
    \/ /\ source_type = k_gdacs
       /\ \/ StartsWith(Lower(item_title(item)), k_green_sp)
          \/ Contains(Lower(item_title(item)), k_green_alert)
          \/ Contains(Lower(item_str(item)), k_alertlevel_gt_green)
    \/ /\ source_type = k_noaa_spc
       /\ \/ Contains(Lower(item_link(item)), k_md_link)
          \/ StartsWith(Lower(item_title(item)), k_spc_md)
          \/ Contains(Lower(item_link(item)), k_outlook_link)
          \/ Contains(Lower(item_title(item)), k_outlook)

\* lines 287-295: the report appended for an item
report_of(item, source) ==
    [kind |-> "dict", source_type |-> feed_source_type(source.url), title |-> item_title(item),
     summary |-> item_summary(item), link |-> item_link(item), published |-> item_published(item),
     source |-> feed_title(source), raw_entry |-> item_str(item), extras |-> <<>>]

reports_of_none(items, source) == <<>>

reports_of_items(items, source) == [k \in 1..Len(items) |-> report_of(items[k], source)]

\* lines 259-295: the reports a fetched and parsed source appends
source_reports(source, prefilter_ok) ==
    reports_of_items(SelectSeq(prefiltered_items(source, prefilter_ok),
                               LAMBDA item : ~final_filtered(item, feed_source_type(source.url))), source)

(***************************************************************************)
(* Inputs of fetch_rss_feeds: lists of at most MaxFeeds sources.           *)
(***************************************************************************)
u_gdacs == <<"h", "t", "t", "p", "s", ":", "/", "/", "w", "w", "w", ".", "G", "D", "A", "C", "S", ".", "o", "r", "g", "/", "x", "m", "l", "/", "r", "s", "s", ".", "x", "m", "l">>  \* "https://www.GDACS.org/xml/rss.xml"
u_usgs == <<"h", "t", "t", "p", "s", ":", "/", "/", "e", "a", "r", "t", "h", "q", "u", "a", "k", "e", ".", "u", "s", "g", "s", ".", "g", "o", "v", "/", "f", "e", "e", "d", ".", "a", "t", "o", "m">>  \* "https://earthquake.usgs.gov/feed.atom"
u_spc == <<"h", "t", "t", "p", "s", ":", "/", "/", "w", "w", "w", ".", "s", "p", "c", ".", "n", "o", "a", "a", ".", "g", "o", "v", "/", "s", "p", "c", "r", "s", "s", ".", "x", "m", "l">>  \* "https://www.spc.noaa.gov/spcrss.xml"
u_other == <<"h", "t", "t", "p", "s", ":", "/", "/", "e", "x", "a", "m", "p", "l", "e", ".", "o", "r", "g", "/", "f", "e", "e", "d">>  \* "https://example.org/feed"
ft_usgs == <<"U", "S", "G", "S", " ", "F", "e", "e", "d">>  \* "USGS Feed"

Item(title, summ, link, published, alertlevel) ==
    [title |-> title, summary |-> summ, description |-> Missing, link |-> link, published |-> published,
     updated |-> Missing, alertlevel |-> alertlevel]

item_green == Item(t_green_flood, sum_empty, l_a, pub_iso, x_Green)

item_orange == Item(t_orange_eq, sum_m41, l_b, pub_iso, v_orange)

\* a green alert whose title does not say so
item_level_green == Item(t_storm, sum_empty, l_c, pub_iso, x_Green)

item_quake == Item(t_m65, sum_mag60, l_d, pub_rfc, Missing)

\* an item with no element but a description and an updated date
item_bare == [Item(Missing, Missing, Missing, Missing, Missing) EXCEPT !.description = v_desc, !.updated = pub_iso]

item_md == Item(t_spc_md, sum_empty, l_md, pub_iso, Missing)

item_spc_storm == Item(t_storm, sum_empty, l_e, pub_iso, Missing)

item_other == Item(t_storm, sum_empty, l_f, pub_iso, Missing)

Source(url, title, items) == [url |-> url, title |-> title, items |-> items]

FeedSources ==
    {Source(None, Missing, <<>>), Source(<<>>, Missing, <<>>),
     Source(u_gdacs, Missing, <<item_green, item_orange>>), Source(u_gdacs, Missing, <<item_level_green, item_green>>),
     Source(u_usgs, ft_usgs, <<item_quake, item_bare>>),
     Source(u_spc, Missing, <<item_md, item_spc_storm>>),
     Source(u_other, Missing, <<item_other>>)}

MaxFeeds == 2

FeedLists == SeqsUpTo(FeedSources, MaxFeeds)

(***************************************************************************)
(* send_disaster_alert_block step by step (send_to_slack.py lines 21-128). *)
(* An answer of Slack to a post is a record [code, retry_after]: code is   *)
(* "ok", the error code of a SlackApiError, or "exception" for any other   *)
(* exception; retry_after is the Retry-After header of a rate_limited      *)
(* answer, Missing when the answer has none.                               *)
(***************************************************************************)
default_retry_after == 60

backoff_factor_send == 2

\* line 102: int(e.response.headers.get('Retry-After', 60))
retry_after_of(header) == IF header = Missing THEN default_retry_after ELSE DigitsToInt(header)

\* lines 109-111 and 119-121
backoff_sleep(k) == Pow(backoff_factor_send, k)

RetryAfterHeaders == {Missing, <<"1">>, <<"3", "0">>}

SlackAnswer(code, header) == [code |-> code, retry_after |-> header]

NonRetryableCodes == {"invalid_blocks", "channel_not_found", "not_in_channel"}

(***************************************************************************)
(* The summarization loop of process_disasters (process_data.py lines      *)
(* 588-678) and what main() does with its result (main.py lines 146-163).  *)
(***************************************************************************)
max_retries_summary == 3

backoff_factor_summary == 2

\* lines 665-668
summary_backoff(k) == Pow(backoff_factor_summary, k)

\* the exceptions of lines 611, 623, 635 and 647
SummaryErrors == {"RateLimitError", "APIConnectionError", "APIError", "Exception"}

\* What a call of send_disaster_alert_block does to the channel (send_to_slack.py):
\* "blocks": the blocks are posted and it returns True; "text": invalid_blocks, the
\* simplified message is posted and it returns False; "nothing": it returns False
\* with no message posted; "raised": invalid_blocks and the plain-text post raises
SendEffects == {"blocks", "text", "nothing", "raised"}

\* the channel after a call of send_disaster_alert_block for a message of kind
channel_after(posts, kind, effect) ==
    IF effect = "blocks" THEN Append(posts, kind)
    ELSE IF effect = "text" THEN Append(posts, "simplified")
    ELSE posts

summary_always_truthy(value) == TRUE

\* main.py line 148: if summary
summary_truthy(value) == value = "text"

(***************************************************************************)
(* Inputs of normalize_date: the examples of the specification, and date-  *)
(* like texts YYYY-M-D and YYYY/M/D with months and days inside and        *)
(* outside the calendar, alone or embedded in a sentence.                  *)
(***************************************************************************)
d_iso_z == <<"2", "0", "2", "4", "-", "1", "2", "-", "3", "1", "T", "1", "4", ":", "0", "0", ":", "0", "0", "Z">>  \* "2024-12-31T14:00:00Z"
d_not_a_date == <<"n", "o", "t", " ", "a", " ", "d", "a", "t", "e">>  \* "not a date"
d_updated_text == <<"U", "p", "d", "a", "t", "e", "d", ":", " ", "2", "0", "2", "3", "/", "1", "2", "/", "2", "5", " ", "i", "r", "r", "e", "l", "e", "v", "a", "n", "t", " ", "t", "e", "x", "t">>  \* "Updated: 2023/12/25 irrelevant text"
d_updated == <<"U", "p", "d", "a", "t", "e", "d", ":", " ">>  \* "Updated: "
d_y2023 == <<"2", "0", "2", "3">>  \* "2023"
d_y2024 == <<"2", "0", "2", "4">>  \* "2024"

DateYears == {d_y2023, d_y2024}

DateMonths == {<<"2">>, <<"0", "2">>, <<"1", "2">>, <<"1", "3">>}

DateDays == {<<"5">>, <<"2", "9">>, <<"3", "0">>, <<"4", "5">>}

DateLikeTexts == {y \o <<sep>> \o m \o <<sep>> \o d : y \in DateYears, sep \in {"-", "/"}, m \in DateMonths, d \in DateDays}

DateInputs ==
    {None, <<>>, d_iso_z, d_not_a_date, d_updated_text, pub_rfc}
    \cup DateLikeTexts \cup {d_updated \o t : t \in DateLikeTexts}

VARIABLES
    entry, entry_details, plain_result, details_result,
    batch, attempt, extract_state, details_map, response, llm_calls, sleeps, call_log,
    pc, cycle, now, ledger, cleanup_ok, deleted_count, healthy, delivered, db_accesses, sent_entries, load_ok, disasters, new_disasters, summary,
    send_result, saved,
    group_input, initial_filtered, extraction_batches, all_details, group_index, group_keys, grouped, group_state,
    feeds, feed_index, disaster_reports, fetch_outcomes, fetch_state,
    token_set, channel_set, send_pc, send_attempt, send_posts, send_answers, send_waits, send_return,
    grouped_any, summary_pc, summary_attempt, summary_errors, summary_sleeps, summary_value, channel_posts,
    date_input, date_arg, date_depth, date_result

filter_vars == <<entry, entry_details, plain_result, details_result>>

extract_vars == <<batch, attempt, extract_state, details_map, response, llm_calls, sleeps, call_log>>

main_vars ==
    <<pc, cycle, now, ledger, cleanup_ok, deleted_count, healthy, delivered, db_accesses, sent_entries, load_ok, disasters, new_disasters, summary,
      send_result, saved>>

group_vars == <<group_input, initial_filtered, extraction_batches, all_details, group_index, group_keys, grouped, group_state>>

fetch_vars == <<feeds, feed_index, disaster_reports, fetch_outcomes, fetch_state>>

send_vars == <<token_set, channel_set, send_pc, send_attempt, send_posts, send_answers, send_waits, send_return>>

summary_vars == <<grouped_any, summary_pc, summary_attempt, summary_errors, summary_sleeps, summary_value, channel_posts>>

date_vars == <<date_input, date_arg, date_depth, date_result>>

vars == <<filter_vars, extract_vars, main_vars, group_vars, fetch_vars, send_vars, summary_vars, date_vars>>

\* the variables a specification leaves alone
not_filter_vars == <<extract_vars, main_vars, group_vars, fetch_vars, send_vars, summary_vars, date_vars>>

not_extract_vars == <<filter_vars, main_vars, group_vars, fetch_vars, send_vars, summary_vars, date_vars>>

not_main_vars == <<filter_vars, extract_vars, group_vars, fetch_vars, send_vars, summary_vars, date_vars>>

not_group_vars == <<filter_vars, extract_vars, main_vars, fetch_vars, send_vars, summary_vars, date_vars>>

not_fetch_vars == <<filter_vars, extract_vars, main_vars, group_vars, send_vars, summary_vars, date_vars>>

not_send_vars == <<filter_vars, extract_vars, main_vars, group_vars, fetch_vars, summary_vars, date_vars>>

not_summary_vars == <<filter_vars, extract_vars, main_vars, group_vars, fetch_vars, send_vars, date_vars>>

not_date_vars == <<filter_vars, extract_vars, main_vars, group_vars, fetch_vars, send_vars, summary_vars>>

\* no answer of the LLM was processed yet
NoResponse == Answer("none", <<>>)

\* the values of the variables a specification does not use
FilterUnused == entry = NoneEntry /\ entry_details = NoDetails /\ plain_result = "unset" /\ details_result = "unset"

ExtractUnused ==
    /\ batch = <<>> /\ attempt = 0 /\ extract_state = "unused"
    /\ details_map = EmptyMap /\ response = NoResponse /\ llm_calls = 0 /\ sleeps = <<>> /\ call_log = <<>>

MainUnused ==
    /\ pc = "unused" /\ cycle = 0 /\ now = 0 /\ ledger = EmptyLedger /\ sent_entries = {}
    /\ cleanup_ok = TRUE /\ deleted_count = 0 /\ db_accesses = <<>>
    /\ healthy = FALSE /\ delivered = {}
    /\ load_ok = TRUE /\ disasters = <<>> /\ new_disasters = <<>> /\ summary = NoSummary
    /\ send_result = "unset" /\ saved = <<>>

GroupUnused ==
    /\ group_input = <<>> /\ initial_filtered = <<>> /\ all_details = EmptyMap /\ group_index = 0
    /\ group_keys = <<>> /\ grouped = EmptyMap /\ group_state = "unused" /\ extraction_batches = <<>>

FetchUnused ==
    feeds = <<>> /\ feed_index = 0 /\ disaster_reports = <<>> /\ fetch_outcomes = <<>> /\ fetch_state = "unused"

SendUnused ==
    /\ token_set = TRUE /\ channel_set = TRUE /\ send_pc = "unused" /\ send_attempt = 0
    /\ send_posts = <<>> /\ send_answers = <<>> /\ send_waits = <<>> /\ send_return = "unset"

SummaryUnused ==
    /\ grouped_any = FALSE /\ summary_pc = "unused" /\ summary_attempt = 0 /\ summary_errors = <<>>
    /\ summary_sleeps = <<>> /\ summary_value = "unset" /\ channel_posts = <<>>

DateUnused ==
    date_input = <<>> /\ date_arg = <<>> /\ date_depth = 0 /\ date_result = <<"unused">>

(***************************************************************************)
(* SpecFilter: the two calls group_disasters makes for one entry,          *)
(* should_filter_entry without details (line 442), then with the extracted *)
(* details (line 477).                                                     *)
(***************************************************************************)
FilterInit ==
    /\ entry \in FilterEntries
    /\ entry_details \in FilterDetails
    /\ plain_result = "unset"
    /\ details_result = "unset"
    /\ ExtractUnused
    /\ MainUnused
    /\ GroupUnused
    /\ FetchUnused
    /\ SendUnused
    /\ SummaryUnused
    /\ DateUnused

CallWithoutDetails ==
    /\ plain_result = "unset"
    /\ plain_result' = should_filter_entry(entry, NoDetails)
    /\ UNCHANGED <<entry, entry_details, details_result, not_filter_vars>>

CallWithDetails ==
    /\ plain_result # "unset"
    /\ details_result = "unset"
    /\ details_result' = should_filter_entry(entry, entry_details)
    /\ UNCHANGED <<entry, entry_details, plain_result, not_filter_vars>>

FilterNext == CallWithoutDetails \/ CallWithDetails

SpecFilter == FilterInit /\ [][FilterNext]_vars

(***************************************************************************)
(* SpecExtract: one call of extract_details_in_batch, one action per       *)
(* iteration of its retry loop (lines 315-401), the answer of the LLM      *)
(* chosen freely at each call.                                             *)
(***************************************************************************)
ExtractInit ==
    /\ batch \in Batches
    /\ attempt = 1
    /\ extract_state = "running"
    /\ details_map = EmptyMap
    /\ response = NoResponse
    /\ llm_calls = 0
    /\ sleeps = <<>>
    /\ call_log = <<>>
    /\ FilterUnused
    /\ MainUnused
    /\ GroupUnused
    /\ FetchUnused
    /\ SendUnused
    /\ SummaryUnused
    /\ DateUnused

\* lines 247-248
ReturnEmpty ==
    /\ extract_state = "running" /\ Len(batch) = 0
    /\ extract_state' = "returned"
    /\ UNCHANGED <<batch, attempt, details_map, response, llm_calls, sleeps, call_log, not_extract_vars>>

\* an attempt whose answer is parsed and processed: return details_map (line 387)
AttemptReturns ==
    /\ extract_state = "running" /\ Len(batch) > 0
    /\ \E resp \in Answers : \E result \in {attempt_result(batch, resp)} :
          /\ result.ok /\ details_map' = result.map /\ response' = resp
          /\ call_log' = Append(call_log, [kind |-> resp.kind, ok |-> TRUE])
    /\ llm_calls' = llm_calls + 1
    /\ extract_state' = "returned"
    /\ UNCHANGED <<batch, attempt, sleeps, not_extract_vars>>

\* an attempt that ends in an except clause, with attempts left: sleep and retry
AttemptFailsRetry ==
    /\ extract_state = "running" /\ Len(batch) > 0
    /\ attempt < max_retries_extract
    /\ \E resp \in Answers :
          /\ ~attempt_result(batch, resp).ok
          /\ call_log' = Append(call_log, [kind |-> resp.kind, ok |-> FALSE])
    /\ llm_calls' = llm_calls + 1
    /\ sleeps' = Append(sleeps, sleep_time(attempt))
    /\ attempt' = attempt + 1
    /\ UNCHANGED <<batch, extract_state, details_map, response, not_extract_vars>>

\* the last attempt fails: the fallback of lines 403-415, which returns, or raises
\* what normalize_date raises
AttemptFailsLast ==
    /\ extract_state = "running" /\ Len(batch) > 0
    /\ attempt = max_retries_extract
    /\ \E resp \in Answers :
          /\ ~attempt_result(batch, resp).ok
          /\ call_log' = Append(call_log, [kind |-> resp.kind, ok |-> FALSE])
    /\ llm_calls' = llm_calls + 1
    /\ attempt' = attempt + 1
    /\ \E fallback \in {fallback_details(batch)} :
          /\ extract_state' = IF fallback.ok THEN "returned" ELSE "raised"
          /\ details_map' = IF fallback.ok THEN fallback.map ELSE details_map
    /\ UNCHANGED <<batch, sleeps, response, not_extract_vars>>

ExtractNext == ReturnEmpty \/ AttemptReturns \/ AttemptFailsRetry \/ AttemptFailsLast

SpecExtract == ExtractInit /\ [][ExtractNext]_vars

(***************************************************************************)
(* Spec: the cycles the scheduler runs, job() around main() (main.py lines *)
(* 120-192), one action per call main() makes to the ledger, the feeds,    *)
(* the LLM and Slack.  pc is the call main() makes next.                   *)
(***************************************************************************)
MainInit ==
    /\ pc = "idle" /\ cycle = 0 /\ now = 0 /\ ledger = EmptyLedger /\ sent_entries = {}
    /\ cleanup_ok = TRUE /\ deleted_count = 0 /\ db_accesses = <<>>
    /\ healthy = FALSE /\ delivered = {}
    /\ load_ok = TRUE /\ disasters = <<>> /\ new_disasters = <<>> /\ summary = NoSummary
    /\ send_result = "unset" /\ saved = <<>>
    /\ FilterUnused
    /\ ExtractUnused
    /\ GroupUnused
    /\ FetchUnused
    /\ SendUnused
    /\ SummaryUnused
    /\ DateUnused

\* the scheduler runs job() some days after the last cycle; main() starts with
\* cleanup_old_entries (line 127), which leaves the table as it is when it fails.
\* db_accesses lists the statements the cycle has sent to the ledger store, each
\* on a connection of its own (lines 74, 93 and 110)
StartCycleStep ==
    /\ pc = "idle" /\ cycle < MaxCycles
    /\ cycle' = cycle + 1
    /\ \E days \in ElapsedDays, db_ok \in BOOLEAN :
          /\ now' = now + days
          /\ ledger' = IF db_ok THEN cleanup_old_entries(ledger, now + days) ELSE ledger
          /\ cleanup_ok' = db_ok
          /\ deleted_count' = Cardinality(DOMAIN ledger) - Cardinality(DOMAIN ledger')
    /\ db_accesses' = ledger_access(<<>>, "DELETE")
    /\ sent_entries' = {} /\ load_ok' = TRUE /\ disasters' = <<>> /\ new_disasters' = <<>>
    /\ summary' = NoSummary /\ send_result' = "unset" /\ saved' = <<>>
    /\ pc' = "load"
    /\ UNCHANGED not_main_vars

StartCycle == StartCycleStep /\ UNCHANGED <<healthy, delivered>>

\* line 130
LoadSentEntries ==
    /\ pc = "load"
    /\ \E db_ok \in BOOLEAN : sent_entries' = load_sent_entries(ledger, db_ok) /\ load_ok' = db_ok
    /\ db_accesses' = ledger_access(db_accesses, "SELECT")
    /\ pc' = "fetch"
    /\ UNCHANGED <<cycle, now, ledger, cleanup_ok, deleted_count, healthy, delivered, disasters, new_disasters, summary, send_result, saved, not_main_vars>>

\* lines 133-141: fetch, drop the entries already sent, return when none is left
FetchFeeds ==
    /\ pc = "fetch"
    /\ \E fetched \in Fetches :
          /\ disasters' = fetched
          /\ new_disasters' = filter_already_sent(fetched, sent_entries)
    /\ pc' = IF Len(new_disasters') = 0 THEN "idle" ELSE "process"
    /\ UNCHANGED <<cycle, now, ledger, cleanup_ok, deleted_count, healthy, delivered, db_accesses, sent_entries, load_ok, summary, send_result, saved, not_main_vars>>

\* lines 146-148 and 162-163: process_disasters; an exception goes to job()
ProcessDisastersWith(llms) ==
    /\ pc = "process"
    /\ \E llm \in llms : \E done \in {process_disasters(new_disasters, llm)} :
          /\ summary' = done.summary
          /\ pc' = IF done.outcome = "raised" THEN "error"
                   ELSE IF done.summary.kind = "text" THEN "send" ELSE "idle"
    /\ UNCHANGED <<cycle, now, ledger, cleanup_ok, deleted_count, db_accesses, sent_entries, load_ok, disasters, new_disasters, send_result, saved, not_main_vars>>

ProcessDisasters == ProcessDisastersWith(LLMs) /\ UNCHANGED <<healthy, delivered>>

\* line 155: the value send_disaster_alert_block returns is not used
SendAlertWith(results) ==
    /\ pc = "send"
    /\ send_result' \in results
    /\ pc' = IF send_result' = "raised" THEN "error" ELSE "save"
    /\ UNCHANGED <<cycle, now, ledger, cleanup_ok, deleted_count, healthy, db_accesses, sent_entries, load_ok, disasters, new_disasters, summary, saved, not_main_vars>>

SendAlert == SendAlertWith(SendResults) /\ UNCHANGED delivered

\* lines 158-159: save_sent_entries(new_links), which leaves the table as it is when
\* it fails
SaveSentEntries ==
    /\ pc = "save"
    /\ \E db_ok \in BOOLEAN :
          /\ ledger' = IF db_ok THEN save_sent_entries(ledger, links_of(new_disasters), now) ELSE ledger
          /\ saved' = IF db_ok THEN links_of(new_disasters) ELSE <<>>
    /\ db_accesses' = ledger_access(db_accesses, "INSERT")
    /\ pc' = "idle"
    /\ UNCHANGED <<cycle, now, cleanup_ok, deleted_count, healthy, delivered, sent_entries, load_ok, disasters, new_disasters, summary, send_result, not_main_vars>>

\* job(), lines 171-192: the exception is logged and reported to Slack; nothing is
\* saved
JobHandlesError ==
    /\ pc = "error"
    /\ pc' = "idle"
    /\ UNCHANGED <<cycle, now, ledger, cleanup_ok, deleted_count, healthy, delivered, db_accesses, sent_entries, load_ok, disasters, new_disasters, summary, send_result, saved, not_main_vars>>

Next == StartCycle \/ LoadSentEntries \/ FetchFeeds \/ ProcessDisasters \/ SendAlert \/ SaveSentEntries \/ JobHandlesError

Spec == MainInit /\ [][Next]_vars

(***************************************************************************)
(* The same cycle while the services recover: from the cycle that sets     *)
(* healthy on, the LLM calls and the Slack post succeed; delivered holds   *)
(* the links of the notifications that send_disaster_alert_block reported  *)
(* as sent.  The scheduler loop (main.py 207-217) runs job() again and     *)
(* again, so a step of the cycle that is enabled is taken.                 *)
(***************************************************************************)
RecoveringCycle ==
    /\ StartCycleStep
    /\ healthy' \in (IF healthy THEN {TRUE} ELSE BOOLEAN)
    /\ UNCHANGED delivered

\* the cycles after the counted ones: each runs more than RETENTION_DAYS after the
\* one before it, so that the clock of the model needs no further value
LaterCycle ==
    /\ pc = "idle" /\ cycle = MaxCycles
    /\ \E db_ok \in BOOLEAN :
          /\ ledger' = IF db_ok THEN cleanup_old_entries(ledger, now + RETENTION_DAYS + 1) ELSE ledger
          /\ cleanup_ok' = db_ok
          /\ deleted_count' = Cardinality(DOMAIN ledger) - Cardinality(DOMAIN ledger')
    /\ db_accesses' = ledger_access(<<>>, "DELETE")
    /\ sent_entries' = {} /\ load_ok' = TRUE /\ disasters' = <<>> /\ new_disasters' = <<>>
    /\ summary' = NoSummary /\ send_result' = "unset" /\ saved' = <<>>
    /\ pc' = "load"
    /\ healthy' \in (IF healthy THEN {TRUE} ELSE BOOLEAN)
    /\ UNCHANGED <<cycle, now, delivered, not_main_vars>>

ProcessWhileRecovering ==
    /\ ProcessDisastersWith(IF healthy THEN HealthyLLMs ELSE LLMs)
    /\ UNCHANGED <<healthy, delivered>>

SendTracked ==
    /\ SendAlertWith(IF healthy THEN {"True"} ELSE SendResults)
    /\ delivered' = notified(delivered, summary, send_result')

ProgressNext ==
    RecoveringCycle \/ LaterCycle \/ LoadSentEntries \/ FetchFeeds \/ ProcessWhileRecovering \/ SendTracked \/ SaveSentEntries \/ JobHandlesError

SpecProgress == MainInit /\ [][ProgressNext]_vars

SpecFair == SpecProgress /\ WF_vars(ProgressNext)

(***************************************************************************)
(* SpecGroup: one call of group_disasters (process_data.py lines 435-518), *)
(* one action for the filter of line 442, one for the extraction of lines  *)
(* 450-460 and one per iteration of the loop of lines 463-516.             *)
(***************************************************************************)
GroupInit ==
    /\ group_input \in GroupInputs
    /\ initial_filtered = <<>> /\ all_details = EmptyMap /\ group_index = 0
    /\ group_keys = <<>> /\ grouped = EmptyMap /\ group_state = "filter" /\ extraction_batches = <<>>
    /\ FilterUnused
    /\ ExtractUnused
    /\ MainUnused
    /\ FetchUnused
    /\ SendUnused
    /\ SummaryUnused
    /\ DateUnused

\* lines 442-445: should_filter_entry(d) for every entry; an exception leaves
\* group_disasters
FilterInitial ==
    /\ group_state = "filter"
    /\ \E plain \in {plain_results(group_input)} :
          IF \E k \in 1..Len(group_input) : plain[k] = "AttributeError"
          THEN group_state' = "raised" /\ initial_filtered' = initial_filtered
          ELSE /\ initial_filtered' = SelectIndexes(group_input, {k \in 1..Len(group_input) : plain[k] = "False"}, 1)
               /\ group_state' = IF Len(initial_filtered') = 0 THEN "returned" ELSE "extract"
    /\ UNCHANGED <<group_input, extraction_batches, all_details, group_index, group_keys, grouped, not_group_vars>>

\* lines 450-460: the batch of the prepared entries is extracted; extraction_batches
\* lists the batches given to extract_details_in_batch, which puts each in the
\* prompt of its LLM calls
ExtractDetails ==
    /\ group_state = "extract"
    /\ \E prepared \in {prepared_entries(initial_filtered)} : \E resp \in GroupAnswers(prepared) :
          \E extracted \in {extract_details_in_batch(prepared, resp)} :
             /\ extraction_batches' = Append(extraction_batches, prepared)
             /\ all_details' = extracted.map
             /\ group_state' = IF extracted.outcome = "raised" THEN "raised" ELSE "loop"
    /\ group_index' = 1
    /\ UNCHANGED <<group_input, initial_filtered, group_keys, grouped, not_group_vars>>

\* the entry of the current iteration and its details (lines 463-469)
CurrentDisaster == initial_filtered[group_index]

InLoop == group_state = "loop" /\ group_index <= Len(initial_filtered)

\* lines 471-480: "skip" when the entry has no details or should_filter_entry(disaster,
\* details) returns True; when it returns False or raises (the except of lines
\* 479-480 keeps the entry), "raise" when .capitalize() of line 492 raises on an
\* alert_level that is not a string, and "append" otherwise
iteration_outcome(disaster, dmap) ==
    IF disaster.link \notin DOMAIN dmap THEN "skip"
    ELSE IF should_filter_entry(disaster, dmap[disaster.link]) = "True" THEN "skip"
    ELSE IF key_raises(disaster, dmap[disaster.link]) THEN "raise"
    ELSE "append"

\* one iteration of the loop of lines 463-516
GroupEntry ==
    /\ InLoop
    /\ \E outcome \in {iteration_outcome(CurrentDisaster, all_details)} :
          /\ group_state' = IF outcome = "raise" THEN "raised" ELSE group_state
          /\ group_index' = IF outcome = "raise" THEN group_index ELSE group_index + 1
          /\ group_keys' = IF outcome = "skip" THEN Append(group_keys, Missing)
                            ELSE IF outcome = "append" THEN Append(group_keys, group_key(CurrentDisaster, all_details[CurrentDisaster.link]))
                            ELSE group_keys
          /\ grouped' = IF outcome = "append"
                         THEN append_to_group(grouped, group_key(CurrentDisaster, all_details[CurrentDisaster.link]),
                                              group_member(CurrentDisaster, all_details[CurrentDisaster.link]))
                         ELSE grouped
    /\ UNCHANGED <<group_input, initial_filtered, extraction_batches, all_details, not_group_vars>>

\* line 518
ReturnGrouped ==
    /\ group_state = "loop" /\ group_index > Len(initial_filtered)
    /\ group_state' = "returned"
    /\ UNCHANGED <<group_input, initial_filtered, extraction_batches, all_details, group_index, group_keys, grouped, not_group_vars>>

GroupNext == FilterInitial \/ ExtractDetails \/ GroupEntry \/ ReturnGrouped

SpecGroup == GroupInit /\ [][GroupNext]_vars

(***************************************************************************)
(* SpecFetch: one call of fetch_rss_feeds, one action per iteration of the *)
(* loop over the feed URLs (lines 65-300).  fetch_outcomes records what    *)
(* the log says of each source: skipped, failed or parsed.                 *)
(***************************************************************************)
FetchInit ==
    /\ feeds \in FeedLists
    /\ feed_index = 1 /\ disaster_reports = <<>> /\ fetch_outcomes = <<>> /\ fetch_state = "loop"
    /\ FilterUnused
    /\ ExtractUnused
    /\ MainUnused
    /\ GroupUnused
    /\ SendUnused
    /\ SummaryUnused
    /\ DateUnused

InFeedLoop == fetch_state = "loop" /\ feed_index <= Len(feeds)

\* lines 66-68
SkipEmptyUrl ==
    /\ InFeedLoop /\ feeds[feed_index].url \in {None, <<>>}
    /\ fetch_outcomes' = Append(fetch_outcomes, "skipped")
    /\ feed_index' = feed_index + 1
    /\ UNCHANGED <<feeds, disaster_reports, fetch_state, not_fetch_vars>>

\* lines 72-75 and 297-300: requests.get or raise_for_status raises a
\* RequestException, or the processing of the response raises another exception
\* before the loop over the entries; the exception is logged
SourceFails ==
    /\ InFeedLoop /\ feeds[feed_index].url \notin {None, <<>>}
    /\ fetch_outcomes' = Append(fetch_outcomes, "failed")
    /\ feed_index' = feed_index + 1
    /\ UNCHANGED <<feeds, disaster_reports, fetch_state, not_fetch_vars>>

\* lines 72-295: the source is fetched and parsed, with an XML pre-filter that works
\* or fails, and its reports are appended
SourceParsed ==
    /\ InFeedLoop /\ feeds[feed_index].url \notin {None, <<>>}
    /\ \E prefilter_ok \in BOOLEAN :
          disaster_reports' = disaster_reports \o source_reports(feeds[feed_index], prefilter_ok)
    /\ fetch_outcomes' = Append(fetch_outcomes, "parsed")
    /\ feed_index' = feed_index + 1
    /\ UNCHANGED <<feeds, fetch_state, not_fetch_vars>>

\* lines 302-303
ReturnReports ==
    /\ fetch_state = "loop" /\ feed_index > Len(feeds)
    /\ fetch_state' = "returned"
    /\ UNCHANGED <<feeds, feed_index, disaster_reports, fetch_outcomes, not_fetch_vars>>

FetchNext == SkipEmptyUrl \/ SourceFails \/ SourceParsed \/ ReturnReports

SpecFetch == FetchInit /\ [][FetchNext]_vars

(***************************************************************************)
(* SpecSend: one call of send_disaster_alert_block, one action per answer  *)
(* of Slack to a post.  send_posts lists the posts made ("blocks" or       *)
(* "text"), send_answers the answer to each and send_waits the time.sleep  *)
(* that followed it (0 when there was none).                               *)
(***************************************************************************)
SendInit ==
    /\ token_set \in BOOLEAN /\ channel_set \in BOOLEAN
    /\ send_pc = "start" /\ send_attempt = 0
    /\ send_posts = <<>> /\ send_answers = <<>> /\ send_waits = <<>> /\ send_return = "unset"
    /\ FilterUnused
    /\ ExtractUnused
    /\ MainUnused
    /\ GroupUnused
    /\ FetchUnused
    /\ SummaryUnused
    /\ DateUnused

\* lines 34-40
MissingConfiguration ==
    /\ send_pc = "start" /\ (~token_set \/ ~channel_set)
    /\ send_pc' = "returned" /\ send_return' = "False"
    /\ UNCHANGED <<token_set, channel_set, send_attempt, send_posts, send_answers, send_waits, not_send_vars>>

\* lines 42-54: the first attempt begins
BeginAttempts ==
    /\ send_pc = "start" /\ token_set /\ channel_set
    /\ send_pc' = "post" /\ send_attempt' = 1
    /\ UNCHANGED <<token_set, channel_set, send_posts, send_answers, send_waits, send_return, not_send_vars>>

\* the post of the blocks (lines 59-63) answered by answer, followed by wait seconds
\* of time.sleep
Posted(kind, answer, wait) ==
    /\ send_posts' = Append(send_posts, kind)
    /\ send_answers' = Append(send_answers, answer)
    /\ send_waits' = Append(send_waits, wait)

attempts_remain_after_last(k) == k <= max_retries_send

\* range(1, max_retries + 1) of line 54: an attempt follows attempt k
attempts_remain(k) == k < max_retries_send

\* the loop of line 54 goes on to the next attempt, or ends and line 128 returns
NextAttempt ==
    IF attempts_remain(send_attempt)
    THEN send_pc' = "post" /\ send_attempt' = send_attempt + 1 /\ send_return' = send_return
    ELSE send_pc' = "returned" /\ send_attempt' = send_attempt /\ send_return' = "False"

\* lines 59-66
PostAccepted ==
    /\ send_pc = "post"
    /\ Posted("blocks", SlackAnswer("ok", Missing), 0)
    /\ send_pc' = "returned" /\ send_return' = "True"
    /\ UNCHANGED <<token_set, channel_set, send_attempt, not_send_vars>>

\* lines 68-78: invalid_blocks; the plain-text post comes next
PostInvalidBlocks ==
    /\ send_pc = "post"
    /\ Posted("blocks", SlackAnswer("invalid_blocks", Missing), 0)
    /\ send_pc' = "simplified"
    /\ UNCHANGED <<token_set, channel_set, send_attempt, send_return, not_send_vars>>

\* lines 79-91: the plain-text post of the simplified message.  Accepted: line 86
\* returns False.  SlackApiError: pass, then the break of line 91 and the return of
\* line 128.  Any other exception is raised inside the except clause of line 68
\* and leaves the function.
SimplifiedPost ==
    /\ send_pc = "simplified"
    /\ \E code \in {"ok", "api_error", "exception"} :
          /\ Posted("text", SlackAnswer(code, Missing), 0)
          /\ send_pc' = IF code = "exception" THEN "raised" ELSE "returned"
          /\ send_return' = IF code = "exception" THEN send_return ELSE "False"
    /\ UNCHANGED <<token_set, channel_set, send_attempt, not_send_vars>>

\* lines 93-99 and 128
PostChannelError ==
    /\ send_pc = "post"
    /\ \E code \in {"channel_not_found", "not_in_channel"} : Posted("blocks", SlackAnswer(code, Missing), 0)
    /\ send_pc' = "returned" /\ send_return' = "False"
    /\ UNCHANGED <<token_set, channel_set, send_attempt, not_send_vars>>

\* lines 101-105: time.sleep(retry_after), then continue
PostRateLimited ==
    /\ send_pc = "post"
    /\ \E header \in RetryAfterHeaders : Posted("blocks", SlackAnswer("rate_limited", header), retry_after_of(header))
    /\ NextAttempt
    /\ UNCHANGED <<token_set, channel_set, not_send_vars>>

\* lines 107-126: another error code or another exception: a sleep of
\* backoff_factor ** attempt when an attempt remains
PostOtherError ==
    /\ send_pc = "post"
    /\ \E code \in {"api_error", "exception"} :
          Posted("blocks", SlackAnswer(code, Missing),
                 IF attempts_remain(send_attempt) THEN backoff_sleep(send_attempt) ELSE 0)
    /\ NextAttempt
    /\ UNCHANGED <<token_set, channel_set, not_send_vars>>

SendNext ==
    \/ MissingConfiguration \/ BeginAttempts \/ PostAccepted \/ PostInvalidBlocks \/ SimplifiedPost
    \/ PostChannelError \/ PostRateLimited \/ PostOtherError

SpecSend == SendInit /\ [][SendNext]_vars

\* the call runs to its end: every post is answered and every sleep ends
SpecSendFair == SpecSend /\ WF_vars(SendNext)

(***************************************************************************)
(* SpecSummary: one call of process_disasters from line 525 on, one action *)
(* per LLM call and per call of send_disaster_alert_block, followed by     *)
(* lines 148-163 of main() and the handler of job().  channel_posts lists  *)
(* the messages posted to the channel: "alert" for the blocks of an        *)
(* operational alert, "notification" for the blocks of a summary and       *)
(* "simplified" for the plain-text message that replaces invalid blocks.   *)
(***************************************************************************)
SummaryInit ==
    /\ grouped_any \in BOOLEAN
    /\ summary_pc = "start" /\ summary_attempt = 0 /\ summary_errors = <<>>
    /\ summary_sleeps = <<>> /\ summary_value = "unset" /\ channel_posts = <<>>
    /\ FilterUnused
    /\ ExtractUnused
    /\ MainUnused
    /\ GroupUnused
    /\ FetchUnused
    /\ SendUnused
    /\ DateUnused

\* lines 528-530
NothingGrouped ==
    /\ summary_pc = "start" /\ ~grouped_any
    /\ summary_pc' = "returned" /\ summary_value' = "None"
    /\ UNCHANGED <<grouped_any, summary_attempt, summary_errors, summary_sleeps, channel_posts, not_summary_vars>>

\* lines 532-588: the prompt is built and the first attempt begins
BuildPrompt ==
    /\ summary_pc = "start" /\ grouped_any
    /\ summary_pc' = "call" /\ summary_attempt' = 1
    /\ UNCHANGED <<grouped_any, summary_errors, summary_sleeps, summary_value, channel_posts, not_summary_vars>>

\* lines 590-610: the call returns a content, stripped, that is a text or empty
SummaryReturned ==
    /\ summary_pc = "call"
    /\ summary_value' \in {"text", "empty"}
    /\ summary_pc' = "returned"
    /\ UNCHANGED <<grouped_any, summary_attempt, summary_errors, summary_sleeps, channel_posts, not_summary_vars>>

\* lines 611-658: the call raises; the alert of the except clause comes next
SummaryAttemptFails ==
    /\ summary_pc = "call"
    /\ \E error \in SummaryErrors : summary_errors' = Append(summary_errors, error)
    /\ summary_pc' = "alert"
    /\ UNCHANGED <<grouped_any, summary_attempt, summary_sleeps, summary_value, channel_posts, not_summary_vars>>

\* lines 613-658 and 665-668: the alert of the except clause, then the sleep before
\* the next attempt, or the alert of line 672 when it was the last
AttemptAlert ==
    /\ summary_pc = "alert"
    /\ \E effect \in SendEffects :
          /\ channel_posts' = channel_after(channel_posts, "alert", effect)
          /\ IF effect = "raised"
             THEN summary_pc' = "raised" /\ UNCHANGED <<summary_attempt, summary_sleeps>>
             ELSE IF summary_attempt < max_retries_summary
             THEN /\ summary_pc' = "call" /\ summary_attempt' = summary_attempt + 1
                  /\ summary_sleeps' = Append(summary_sleeps, summary_backoff(summary_attempt))
             ELSE summary_pc' = "exhausted" /\ UNCHANGED <<summary_attempt, summary_sleeps>>
    /\ UNCHANGED <<grouped_any, summary_errors, summary_value, not_summary_vars>>

\* lines 669-678: the alert after the last attempt, then return None
ExhaustedAlert ==
    /\ summary_pc = "exhausted"
    /\ \E effect \in SendEffects :
          /\ channel_posts' = channel_after(channel_posts, "alert", effect)
          /\ summary_pc' = IF effect = "raised" THEN "raised" ELSE "returned"
          /\ summary_value' = IF effect = "raised" THEN summary_value ELSE "None"
    /\ UNCHANGED <<grouped_any, summary_attempt, summary_errors, summary_sleeps, not_summary_vars>>

\* main.py lines 148-161: the summary is formatted and sent
MainSendsSummary ==
    /\ summary_pc = "returned" /\ summary_truthy(summary_value)
    /\ \E effect \in SendEffects :
          /\ channel_posts' = channel_after(channel_posts, "notification", effect)
          /\ summary_pc' = IF effect = "raised" THEN "raised" ELSE "done"
    /\ UNCHANGED <<grouped_any, summary_attempt, summary_errors, summary_sleeps, summary_value, not_summary_vars>>

\* main.py lines 162-163
MainSendsNothing ==
    /\ summary_pc = "returned" /\ ~summary_truthy(summary_value)
    /\ summary_pc' = "done"
    /\ UNCHANGED <<grouped_any, summary_attempt, summary_errors, summary_sleeps, summary_value, channel_posts,
                   not_summary_vars>>

\* main.py lines 171-192: job() reports the exception to the channel; an exception
\* of that report is caught too
JobReportsError ==
    /\ summary_pc = "raised"
    /\ \E effect \in SendEffects : channel_posts' = channel_after(channel_posts, "alert", effect)
    /\ summary_pc' = "done"
    /\ UNCHANGED <<grouped_any, summary_attempt, summary_errors, summary_sleeps, summary_value, not_summary_vars>>

SummaryNext ==
    \/ NothingGrouped \/ BuildPrompt \/ SummaryReturned \/ SummaryAttemptFails \/ AttemptAlert
    \/ ExhaustedAlert \/ MainSendsSummary \/ MainSendsNothing \/ JobReportsError

SpecSummary == SummaryInit /\ [][SummaryNext]_vars

(***************************************************************************)
(* SpecDate: one call of normalize_date (process_data.py lines 39-75), one *)
(* action per call of the recursion of line 70.  date_arg is the argument  *)
(* of the call that runs, date_depth the number of calls below it and      *)
(* date_result what the first call returns or raises.                      *)
(***************************************************************************)
DateInit ==
    /\ date_input \in DateInputs
    /\ date_arg = date_input /\ date_depth = 0 /\ date_result = <<"running">>
    /\ FilterUnused
    /\ ExtractUnused
    /\ MainUnused
    /\ GroupUnused
    /\ FetchUnused
    /\ SendUnused
    /\ SummaryUnused

DateRunning == date_result = <<"running">>

\* lines 44-45
EmptyDate ==
    /\ DateRunning /\ date_arg \in {None, <<>>}
    /\ date_result' = k_unknown_date
    /\ UNCHANGED <<date_input, date_arg, date_depth, not_date_vars>>

\* lines 48-61: the first format that parses
FormatParses ==
    /\ DateRunning /\ date_arg \notin {None, <<>>}
    /\ \E formatted \in {try_formats(date_arg, 1)} : formatted # Missing /\ date_result' = formatted
    /\ UNCHANGED <<date_input, date_arg, date_depth, not_date_vars>>

\* lines 66-70: no format parses and the regex matches: the call of line 70, which
\* raises RecursionError when the stack is full
RecurseOnMatch ==
    /\ DateRunning /\ date_arg \notin {None, <<>>}
    /\ \E extracted \in {extracted_date(date_arg)} :
          /\ try_formats(date_arg, 1) = Missing /\ extracted # Missing
          /\ IF date_depth < RecursionLimit
             THEN date_arg' = extracted /\ date_depth' = date_depth + 1 /\ date_result' = date_result
             ELSE date_arg' = date_arg /\ date_depth' = date_depth /\ date_result' = RecursionError
    /\ UNCHANGED <<date_input, not_date_vars>>

\* line 75
NoDateFound ==
    /\ DateRunning /\ date_arg \notin {None, <<>>}
    /\ try_formats(date_arg, 1) = Missing /\ extracted_date(date_arg) = Missing
    /\ date_result' = k_unknown_date
    /\ UNCHANGED <<date_input, date_arg, date_depth, not_date_vars>>

DateNext == EmptyDate \/ FormatParses \/ RecurseOnMatch \/ NoDateFound

SpecDate == DateInit /\ [][DateNext]_vars

(***************************************************************************)
(* Properties of the cycle (Spec).                                         *)
(***************************************************************************)
\* the entries of new_disasters are being processed, notified and saved
CycleHandlesNew == pc \in {"process", "send", "save"}

NoLedgerLinkIsNew == \A k \in 1..Len(new_disasters) : new_disasters[k].link \notin DOMAIN ledger

\* C1: across the cycles, no entry whose link is in the sent ledger is processed or
\* notified again: main() drops every fetched entry whose link is in the ledger.
C1_LedgerLinkNeverRedelivered == CycleHandlesNew => NoLedgerLinkIsNew

\* C1, amended: in a cycle whose read of the ledger succeeded, no entry whose link is
\* in the sent ledger is processed or notified again (a failed read gives the empty
\* set, and every fetched entry is then handled as new).
C1_LedgerLinkDroppedWhenLoaded == (CycleHandlesNew /\ load_ok) => NoLedgerLinkIsNew

\* C1 witness: a cycle that read a ledger holding the link of a fetched entry, dropped
\* that entry and is about to notify another one
C1_Witness ==
    /\ pc = "send" /\ load_ok
    /\ \E k \in 1..Len(disasters) : disasters[k].link \in DOMAIN ledger
    /\ Len(new_disasters) > 0 /\ Len(new_disasters) < Len(disasters)

\* C2: links are written to the sent ledger only in a cycle whose Slack notification
\* was sent: nothing is saved when send_disaster_alert_block returned False.
C2_SavedOnlyAfterSuccessfulSend == saved # <<>> => send_result = "True"

\* C16: save_sent_entries is an idempotent insert: after a save every saved link is in
\* the set load_sent_entries returns; the row of a link that was already in the ledger
\* keeps its first timestamp, no other row changes, and the save does not raise.
C16_SaveIsIdempotentInsert ==
    [][(pc = "save" /\ saved' # <<>>) =>
          /\ pc' = "idle"
          /\ \A k \in 1..Len(saved') : saved'[k] \in load_sent_entries(ledger', TRUE)
          /\ \A l \in DOMAIN ledger : l \in DOMAIN ledger' /\ ledger'[l] = ledger[l]
          /\ DOMAIN ledger' = DOMAIN ledger \cup {saved'[k] : k \in 1..Len(saved')}]_vars

\* C16 witness: a link was saved again (its entry was notified in an earlier cycle and
\* again in this one) and its row still holds the earlier timestamp
C16_Witness ==
    /\ pc = "idle" /\ saved # <<>>
    /\ \E k \in 1..Len(saved) : saved[k] \in DOMAIN ledger /\ ledger[saved[k]] < now

\* C17: cleanup_old_entries removes exactly the rows whose timestamp is more than 30
\* days old: a younger row stays as it is, an older row is removed, no row is added.
C17_PrunesExactlyOldRows ==
    [][(pc = "idle" /\ pc' = "load" /\ cleanup_ok') =>
          /\ \A l \in DOMAIN ledger :
                IF now' - ledger[l] > 30 THEN l \notin DOMAIN ledger'
                ELSE l \in DOMAIN ledger' /\ ledger'[l] = ledger[l]
          /\ DOMAIN ledger' \subseteq DOMAIN ledger]_vars

\* C17 witness: a cleanup that removed rows
C17_Witness == pc = "load" /\ cleanup_ok /\ deleted_count > 0

(***************************************************************************)
(* Properties of extract_details_in_batch (SpecExtract).                   *)
(***************************************************************************)
BatchIds == {batch[k].id : k \in 1..Len(batch)}

\* the ids of the results the returning attempt stored
ResponseIds ==
    {results_array(response)[k].id : k \in {j \in 1..Len(results_array(response)) : Truthy(results_array(response)[j].id)}}

ResponseOmitsAnId == response # NoResponse /\ BatchIds \ ResponseIds # {}

\* C3: for a batch of K entries (with K distinct ids) and an answer that omits some of
\* their ids, the returned map holds every id of the batch and exactly K keys, each
\* omitted id with the fallback record of its entry.
C3_EveryIdAndExactlyKKeys ==
    (extract_state = "returned" /\ Cardinality(BatchIds) = Len(batch) /\ ResponseOmitsAnId) =>
        /\ BatchIds \subseteq DOMAIN details_map
        /\ \A k \in 1..Len(batch) : batch[k].id \notin ResponseIds => details_map[batch[k].id] = fallback_record(batch[k])
        /\ Cardinality(DOMAIN details_map) = Len(batch)

\* C4: extract_details_in_batch never raises, whatever the LLM does at each attempt.
C4_ExtractNeverRaises == extract_state # "raised"

\* C5: every record of the map extract_details_in_batch returns has a disaster_type, a
\* location and a date that are not absent (neither missing nor null).
C5_FieldsNeverAbsent ==
    extract_state = "returned" =>
        \A id \in DOMAIN details_map :
            /\ details_map[id].disaster_type \notin {None, Missing}
            /\ details_map[id].location \notin {None, Missing}
            /\ details_map[id].date \notin {None, Missing}

(***************************************************************************)
(* Properties of should_filter_entry (SpecFilter).                         *)
(***************************************************************************)
BothCallsMade == plain_result # "unset" /\ details_result # "unset"

\* C6: should_filter_entry is monotone in its details argument: whenever the call
\* without details returns True, the call with details returns True as well.
C6_FilterMonotone == (BothCallsMade /\ plain_result = "True") => details_result = "True"

IsUnrecognizedSource(e) ==
    e.kind = "dict" /\ e.source_type \notin {k_noaa_spc, k_gdacs, k_usgs}

\* C7: for an entry whose source_type is none of noaa_spc, gdacs, usgs (None included)
\* should_filter_entry returns False, without details and with details.
C7_UnrecognizedNeverFiltered ==
    IsUnrecognizedSource(entry) =>
        /\ plain_result \in {"unset", "False"}
        /\ details_result \in {"unset", "False"}

\* C8: should_filter_entry returns True, without raising, for None and for every
\* entry that is not a dict.
C8_MalformedAlwaysFiltered ==
    entry.kind \in {"none", "nondict"} =>
        /\ plain_result \in {"unset", "True"}
        /\ details_result \in {"unset", "True"}

IsUsgs(e) == e.kind = "dict" /\ IsStr(e.source_type) /\ Lower(e.source_type) = k_usgs

\* the magnitude the USGS branch parses: from the title, or from the summary when the
\* title has none (Missing when neither has one)
ParsedMagnitude(e) ==
    IF magnitude_match(e.title) # Missing THEN magnitude_match(e.title) ELSE magnitude_match(e.summary)

\* C9: for a usgs entry with a parsed magnitude, should_filter_entry returns True when
\* the magnitude is below 5.8, and False when it is 5.8 or more and the details-based
\* rule (extracted earthquake severity below 5.8) does not apply.
C9_UsgsThreshold ==
    (IsUsgs(entry) /\ ParsedMagnitude(entry) # Missing) =>
        IF FloatLess(ParsedMagnitude(entry), USGS_THRESHOLD)
        THEN plain_result \in {"unset", "True"} /\ details_result \in {"unset", "True"}
        ELSE /\ plain_result \in {"unset", "False"}
             /\ (details_magnitude_rule(entry_details, USGS_THRESHOLD) # "True") => details_result \in {"unset", "False"}

IsGdacs(e) == e.kind = "dict" /\ IsStr(e.source_type) /\ Lower(e.source_type) = k_gdacs

HasGreenTitle(e) == \E cased \in {k_green_sp, [i \in 1..Len(k_green_sp) |-> UpperChar(k_green_sp[i])], <<"G">> \o Tail(k_green_sp)} : StartsWith(e.title, cased)

\* C10: for a gdacs entry whose title starts with "green " in any letter case,
\* should_filter_entry returns True without details and with any details.
C10_GdacsGreenTitle ==
    (IsGdacs(entry) /\ HasGreenTitle(entry)) =>
        /\ plain_result \in {"unset", "True"}
        /\ details_result \in {"unset", "True"}

\* C10 witness: a gdacs entry titled "GREEN ..." that no other entry rule matches,
\* filtered in the call that passes details whose alert_level is None
C10_Witness ==
    /\ IsGdacs(entry) /\ entry.title = t_GREEN_eq /\ entry.summary = sum_empty
    /\ entry.raw_entry = raw_plain /\ entry.extras = <<>>
    /\ entry_details.kind = "dict" /\ entry_details.alert_level = None
    /\ details_result = "True"

\* the extracted alert_level is "green" in some letter case
DetailsAlertGreen(d) == d.kind = "dict" /\ IsStr(d.alert_level) /\ Lower(d.alert_level) = k_green

\* the extracted type is earthquake and the extracted severity is a number below 6.0
DetailsLowEarthquake(d) ==
    /\ d.kind = "dict" /\ IsStr(d.disaster_type) /\ Lower(d.disaster_type) = k_earthquake
    /\ IsStr(d.severity) /\ FloatOk(d.severity) /\ FloatLess(d.severity, GDACS_EQ_THRESHOLD)

\* C11: for a gdacs entry with extracted details, should_filter_entry returns True
\* when the extracted alert_level is green, and returns True when the extracted type
\* is earthquake with a severity below 6.0, whatever the other fields of the details
\* are (an alert_level of None included).
C11_GdacsDetailsRules ==
    (IsGdacs(entry) /\ details_result # "unset" /\ (DetailsAlertGreen(entry_details) \/ DetailsLowEarthquake(entry_details)))
        => details_result = "True"

(***************************************************************************)
(* Properties of group_disasters (SpecGroup).                              *)
(***************************************************************************)
\* the iterations of the loop that built a key
Keyed == {i \in 1..Len(group_keys) : group_keys[i] # Missing}

DetailsOf(i) == all_details[initial_filtered[i].link]

k_alert == <<" ", "A", "l", "e", "r", "t", ")">>  \* " Alert)"
k_paren == <<")">>  \* ")"

\* the three forms of the key, from the type, location, date, severity and alert level
\* of the details
KeyTail(d) == k_in \o PyStr(d.location) \o k_on \o PyStr(d.date)

AlertLevelForm(d) == PyStr(d.disaster_type) \o k_open \o <<UpperChar(Head(d.alert_level))>> \o Lower(Tail(d.alert_level)) \o k_alert \o KeyTail(d)

SeverityForm(d) == PyStr(d.disaster_type) \o k_open \o d.severity \o k_paren \o KeyTail(d)

PlainForm(d) == PyStr(d.disaster_type) \o KeyTail(d)

\* C12: the key of an entry the override does not apply to is the alert-level form
\* when source_type is gdacs and alert_level is non-empty, otherwise the severity form
\* when severity is present, otherwise the plain form.
C12_GroupKeyForms ==
    \A i \in Keyed :
        md_override(initial_filtered[i]) = Missing =>
            group_keys[i] = IF initial_filtered[i].source_type = k_gdacs /\ DetailsOf(i).alert_level \notin {None, <<>>}
                            THEN AlertLevelForm(DetailsOf(i))
                            ELSE IF DetailsOf(i).severity \notin {None, <<>>} THEN SeverityForm(DetailsOf(i))
                            ELSE PlainForm(DetailsOf(i))

k_orange_key == <<"E", "a", "r", "t", "h", "q", "u", "a", "k", "e", " ", "(", "O", "r", "a", "n", "g", "e", " ", "A", "l", "e", "r", "t", ")", " ", "i", "n", " ", "X", " ", "o", "n", " ", "2", "0", "2", "4", "-", "1", "2", "-", "3", "1">>  \* "Earthquake (Orange Alert) in X on 2024-12-31"

\* C12 witness: a gdacs entry whose details hold the alert level ORANGE and the
\* severity 6.2 was given the alert-level key
C12_Witness ==
    \E i \in Keyed :
        /\ initial_filtered[i] = entry_gdacs
        /\ DetailsOf(i).alert_level = v_ORANGE /\ DetailsOf(i).severity = v_62
        /\ group_keys[i] = k_orange_key /\ k_orange_key \in DOMAIN grouped

k_md12_key == <<"S", "e", "v", "e", "r", "e", " ", "W", "e", "a", "t", "h", "e", "r", " ", "D", "i", "s", "c", "u", "s", "s", "i", "o", "n", " ", "(", "M", "D", " ", "1", "2", ")">>  \* "Severe Weather Discussion (MD 12)"

IsSpc(e) == e.source_type = k_noaa_spc

\* C13: a noaa_spc entry that reaches key construction and whose title matches
\* "MD <number>" has the key "Severe Weather Discussion (MD <number>)", whatever its
\* details.
C13_MdTitleOverrides ==
    \A i \in Keyed :
        (IsSpc(initial_filtered[i]) /\ md_number(initial_filtered[i].title) # Missing) =>
            group_keys[i] = k_swd \o md_number(initial_filtered[i].title) \o k_paren

\* C13, amended: a noaa_spc entry that reaches key construction and whose title
\* contains "spc md" (in any letter case) and matches "md <number>" has the key
\* "Severe Weather Discussion (MD <number>)", whatever its details.
C13_SpcMdTitleOverrides ==
    \A i \in Keyed :
        (IsSpc(initial_filtered[i]) /\ Contains(Lower(initial_filtered[i].title), k_spc_md)
            /\ md_number(initial_filtered[i].title) # Missing) =>
            group_keys[i] = k_swd \o md_number(initial_filtered[i].title) \o k_paren

\* C13 witness: two noaa_spc entries whose titles name discussion 12, with different
\* details, are the two members of the group "Severe Weather Discussion (MD 12)"
C13_Witness ==
    /\ group_state = "returned" /\ Len(group_keys) = 2
    /\ {initial_filtered[i] : i \in Keyed} = {entry_spc_update, entry_spc_later}
    /\ DetailsOf(1) # DetailsOf(2)
    /\ DOMAIN grouped = {k_md12_key} /\ Len(grouped[k_md12_key]) = 2

SameDetailsAndSource(i, j) ==
    DetailsOf(i) = DetailsOf(j) /\ initial_filtered[i].source_type = initial_filtered[j].source_type

\* C14: the key is a function of the details and the source_type: two entries with the
\* same details and the same source_type have the same key.
C14_KeyOfDetailsAndSource ==
    \A i, j \in Keyed : SameDetailsAndSource(i, j) => group_keys[i] = group_keys[j]

\* C14, amended: the key is a function of the details, the source_type and the title:
\* two entries with the same details, source_type and title have the same key.
C14_KeyOfDetailsSourceAndTitle ==
    \A i, j \in Keyed :
        (SameDetailsAndSource(i, j) /\ initial_filtered[i].title = initial_filtered[j].title) => group_keys[i] = group_keys[j]

\* C14 witness: two entries with different links and the same title, source_type and
\* details are the two members of one group
C14_Witness ==
    /\ group_state = "returned" /\ Keyed = {1, 2}
    /\ SameDetailsAndSource(1, 2) /\ initial_filtered[1].title = initial_filtered[2].title
    /\ initial_filtered[1].link # initial_filtered[2].link
    /\ group_keys[1] = group_keys[2] /\ Len(grouped[group_keys[1]]) = 2

\* the number of times the entry with link l is a member of a group
Memberships(l) == Cardinality({<<key, n>> \in UNION {{key} \X (1..Len(grouped[key])) : key \in DOMAIN grouped} : grouped[key][n].link = l})

\* should_filter_entry returned False for e without details and with its details
FilterPassedTwice(e) ==
    /\ should_filter_entry(e, NoDetails) = "False"
    /\ e.link \in DOMAIN all_details
    /\ should_filter_entry(e, all_details[e.link]) = "False"

\* C15: group_disasters places an entry in a group if and only if should_filter_entry
\* returned False for it without details and with its details; such an entry is a
\* member once, of one group, and no other entry is a member of any group.
C15_GroupedIffFilterPassed ==
    group_state = "returned" =>
        \A k \in 1..Len(group_input) :
            Memberships(group_input[k].link) = IF FilterPassedTwice(group_input[k]) THEN 1 ELSE 0

(***************************************************************************)
(* Properties of fetch_rss_feeds (SpecFetch).                              *)
(***************************************************************************)
\* the reports the step of a source has added to the result
AddedReports == SubSeq(disaster_reports', Len(disaster_reports) + 1, Len(disaster_reports'))

\* no filter of the fetch stage concerns the item: its source is neither GDACS nor
\* the SPC, or the item has no mark of a green alert, a discussion or an outlook
NeverFilteredAtFetch(item, url) ==
    \/ feed_source_type(url) \notin {k_gdacs, k_noaa_spc}
    \/ /\ ~prefilter_gdacs_green(item) /\ ~prefilter_spc_report(item)
       /\ ~final_filtered(item, feed_source_type(url))

\* the added reports are the reports of the items of the set chosen, in their order
ReportsOfChosen(source, chosen) ==
    LET items == source.items
        F[k \in 0..Len(items)] ==
            IF k = 0 THEN <<>>
            ELSE IF k \in chosen THEN Append(F[k - 1], <<item_title(items[k]), item_link(items[k])>>)
            ELSE F[k - 1]
    IN  F[Len(items)]

StepOfSource == fetch_state = "loop" /\ feed_index' = feed_index + 1

\* C18: fetch_rss_feeds does not raise; the step of a source never changes the
\* reports of the sources before it; an empty or missing URL is skipped; a skipped
\* or failing source adds no report; a source fetched and parsed adds reports of
\* its own items only, in their order, among them every item that no filter of
\* the fetch stage concerns.
C18_FailingSourceIsolated ==
    [][/\ fetch_state' # "raised"
       /\ StepOfSource =>
            LET source == feeds[feed_index]
                outcome == fetch_outcomes'[feed_index]
            IN  /\ SubSeq(disaster_reports', 1, Len(disaster_reports)) = disaster_reports
                /\ (source.url \in {None, <<>>}) <=> (outcome = "skipped")
                /\ outcome \in {"skipped", "failed"} => disaster_reports' = disaster_reports
                /\ outcome = "parsed" =>
                      \E chosen \in SUBSET (1..Len(source.items)) :
                          /\ \A k \in 1..Len(source.items) :
                                NeverFilteredAtFetch(source.items[k], source.url) => k \in chosen
                          /\ [n \in 1..Len(AddedReports) |-> <<AddedReports[n].title, AddedReports[n].link>>]
                                = ReportsOfChosen(source, chosen)
                          /\ \A n \in 1..Len(AddedReports) :
                                AddedReports[n].source_type = feed_source_type(source.url)]_vars

\* the call has returned: a source with items failed, another was parsed and the
\* result holds reports
C18_Witness ==
    /\ fetch_state = "returned"
    /\ \E i \in 1..Len(fetch_outcomes) : fetch_outcomes[i] = "failed" /\ feeds[i].items # <<>>
    /\ \E i \in 1..Len(fetch_outcomes) : fetch_outcomes[i] = "parsed"
    /\ disaster_reports # <<>>

(***************************************************************************)
(* Properties of send_disaster_alert_block (SpecSend).                     *)
(***************************************************************************)
BlocksPosts == {j \in 1..Len(send_posts) : send_posts[j] = "blocks"}

TextPosts == {j \in 1..Len(send_posts) : send_posts[j] = "text"}

\* C19: once Slack has answered a post of the blocks with invalid_blocks,
\* channel_not_found or not_in_channel, the blocks are not posted again, the
\* function does not raise and what it returns is False; it makes one plain-text
\* post after invalid_blocks and none after the two other errors.
C19_NonRetryableAborts ==
    \A j \in BlocksPosts :
        send_answers[j].code \in NonRetryableCodes =>
            /\ \A n \in BlocksPosts : n <= j
            /\ send_pc \in {"simplified", "returned"}
            /\ send_pc = "returned" =>
                  /\ send_return = "False"
                  /\ Cardinality(TextPosts) = IF send_answers[j].code = "invalid_blocks" THEN 1 ELSE 0
            /\ send_answers[j].code # "invalid_blocks" => TextPosts = {}

\* C20: after every rate_limited answer to a post of the blocks the function has
\* slept the seconds of the Retry-After header, 60 when the answer has none, and
\* it does not return before it has posted the blocks again.
C20_RateLimitedWaitsAndReposts ==
    \A j \in BlocksPosts :
        send_answers[j].code = "rate_limited" =>
            /\ send_waits[j] = IF send_answers[j].retry_after = Missing THEN 60
                               ELSE DigitsToInt(send_answers[j].retry_after)
            /\ send_pc \in {"returned", "raised"} => \E n \in BlocksPosts : n > j

(***************************************************************************)
(* Properties of the summarization (SpecSummary).                          *)
(***************************************************************************)
EverySummaryAttemptFailed == Len(summary_errors) = max_retries_summary

\* C21 as stated: when every summarization attempt has failed and the cycle has
\* ended, process_disasters returned no summary and no message was posted to the
\* channel.
C21_NoMessageWhenSummaryFails ==
    EverySummaryAttemptFailed /\ summary_pc = "done" => summary_value = "None" /\ channel_posts = <<>>

\* C21: when every summarization attempt has failed, no summary is ever produced
\* and no notification of a summary is posted, neither its blocks nor the
\* plain-text message that replaces them: whatever the channel holds is an
\* operational alert.
C21_NoNotificationWhenSummaryFails ==
    EverySummaryAttemptFailed =>
        /\ summary_value \in {"unset", "None"}
        /\ \A n \in 1..Len(channel_posts) : channel_posts[n] \in {"alert", "simplified"}
        /\ Len(channel_posts) <= max_retries_summary + 1

\* three attempts failed, process_disasters returned None, the cycle ended, and
\* the channel holds the alerts of the failures
C21_Witness ==
    /\ EverySummaryAttemptFailed /\ summary_pc = "done" /\ summary_value = "None"
    /\ Len(channel_posts) = max_retries_summary + 1
    /\ \A n \in 1..Len(channel_posts) : channel_posts[n] = "alert"

(***************************************************************************)
(* Properties of the retry loop of extract_details_in_batch (SpecExtract). *)
(***************************************************************************)
\* the kinds of answer that json.loads parses
ParsedKinds == {"results", "list", "single", "dict_other", "scalar", "results_not_list"}

\* at most max_retries calls; the failed attempt k below max_retries was followed
\* by a sleep of backoff_factor^k and the function does not end before another
\* call; no sleep follows the last attempt
RetriesAndSleeps ==
    /\ llm_calls = Len(call_log) /\ llm_calls <= max_retries_extract
    /\ Len(sleeps) = Cardinality({k \in 1..Len(call_log) : ~call_log[k].ok /\ k < max_retries_extract})
    /\ \A k \in 1..Len(sleeps) : sleeps[k] = Pow(backoff_factor, k)
    /\ \A k \in 1..Len(call_log) :
          ~call_log[k].ok /\ k < max_retries_extract /\ extract_state # "running" => Len(call_log) > k

\* C22 as stated: the retries and sleeps above, and the first answer that parses
\* as JSON is the last call.
C22_FirstParsedAnswerEndsLoop ==
    /\ RetriesAndSleeps
    /\ \A k \in 1..Len(call_log) :
          call_log[k].kind \in ParsedKinds => k = Len(call_log) /\ extract_state # "running"

\* C22: the retries and sleeps above, and the first answer that parses as JSON
\* and whose results are processed without an exception is the last call and
\* makes the function return.
C22_FirstProcessedAnswerEndsLoop ==
    /\ RetriesAndSleeps
    /\ \A k \in 1..Len(call_log) :
          call_log[k].ok => call_log[k].kind \in ParsedKinds /\ k = Len(call_log) /\ extract_state = "returned"

\* the first attempt failed, the function slept backoff_factor seconds and the
\* answer to the second call was parsed and processed
C22_Witness ==
    /\ extract_state = "returned" /\ Len(call_log) = max_retries_extract
    /\ ~call_log[1].ok /\ call_log[max_retries_extract].ok
    /\ sleeps = <<backoff_factor>>

(***************************************************************************)
(* Properties of the ledger in the cycle (Spec).                           *)
(***************************************************************************)
\* C23: load_sent_entries always returns and the cycle goes on to the fetch; when
\* the read failed it returned the empty set and every fetched entry is new; when
\* the write fails the cycle ends as it does after a write, not in the handler of
\* job().
C23_LedgerFailuresDoNotAbort ==
    [][/\ pc = "load" => pc' = "fetch" /\ (~load_ok' => sent_entries' = {})
       /\ pc = "fetch" /\ ~load_ok => new_disasters' = disasters'
       /\ pc = "save" => pc' = "idle"]_vars

\* the read of the ledger failed in a cycle that fetched an entry the ledger
\* holds, and the entry is processed as new
C23_Witness ==
    /\ pc = "process" /\ ~load_ok
    /\ \E k \in 1..Len(new_disasters) : new_disasters[k].link \in DOMAIN ledger

IsPrefix(s, t) == Len(s) <= Len(t) /\ s = SubSeq(t, 1, Len(s))

\* C24 as stated: a cycle accesses the ledger store at most twice, a read and then
\* a write.
C24_AtMostReadThenWrite == IsPrefix(db_accesses, <<"SELECT", "INSERT">>)

\* C24: a cycle accesses the ledger store at most three times and in this order:
\* the DELETE of cleanup_old_entries, one read, one INSERT; the INSERT never
\* precedes the read.
C24_PruneReadThenWrite == IsPrefix(db_accesses, <<"DELETE", "SELECT", "INSERT">>)

\* a cycle that pruned, read and wrote
C24_Witness == pc = "idle" /\ cycle > 0 /\ db_accesses = <<"DELETE", "SELECT", "INSERT">>

(***************************************************************************)
(* Properties of normalize_date (SpecDate).                                *)
(***************************************************************************)
IsIsoDate(s) ==
    /\ Len(s) = 10 /\ s[5] = "-" /\ s[8] = "-"
    /\ \A i \in {1, 2, 3, 4, 6, 7, 9, 10} : IsDigit(s[i])

DateReturned == date_result \notin {<<"unused">>, <<"running">>}

\* C25: the call ends with a YYYY-MM-DD date or with 'Unknown Date' and never with
\* an exception; an input no format parses and that embeds no date-like substring
\* gives 'Unknown Date', and so does an input whose embedded substring is no date
\* of the calendar.
C25_NormalizeDateTotal ==
    DateReturned /\ date_input \notin {None, <<>>} =>
        /\ IsIsoDate(date_result) \/ date_result = k_unknown_date
        /\ try_formats(date_input, 1) = Missing /\ extracted_date(date_input) = Missing
              => date_result = k_unknown_date
        /\ try_formats(date_input, 1) = Missing /\ extracted_date(date_input) # Missing
              /\ try_formats(extracted_date(date_input), 1) = Missing
              => date_result = k_unknown_date

(***************************************************************************)
(* Properties of the second filter pass of fetch_rss_feeds (SpecFetch).    *)
(***************************************************************************)
\* C26: no gdacs report of the result has a title that starts with 'green ' or
\* contains 'green alert', and no noaa_spc report has a link that contains '/md/'
\* or '/outlook/' or a title that starts with 'spc md' or contains 'outlook',
\* in any case of the letters.
C26_SecondPassHolds ==
    \A n \in 1..Len(disaster_reports) :
        LET report == disaster_reports[n]
            title == Lower(report.title)
            link == Lower(report.link)
        IN  /\ report.source_type = k_gdacs =>
                  ~StartsWith(title, k_green_sp) /\ ~Contains(title, k_green_alert)
            /\ report.source_type = k_noaa_spc =>
                  /\ ~Contains(link, k_md_link) /\ ~Contains(link, k_outlook_link)
                  /\ ~StartsWith(title, k_spc_md) /\ ~Contains(title, k_outlook)

\* the call returned after a GDACS source whose XML pre-filter failed: the green
\* alert that only its alertlevel element marks is in the result, the one whose
\* title starts with 'Green ' is not
C26_Witness ==
    /\ fetch_state = "returned"
    /\ feeds = <<Source(u_gdacs, Missing, <<item_level_green, item_green>>)>>
    /\ fetch_outcomes = <<"parsed">>
    /\ Len(disaster_reports) = 1 /\ disaster_reports[1].link = item_level_green.link

(***************************************************************************)
(* Properties of the order of the stages of group_disasters (SpecGroup).   *)
(***************************************************************************)
\* should_filter_entry(e) for the entries the inputs are made of
PreFilterResult == Tabulated([e \in GroupCatalog |-> should_filter_entry(e, NoDetails)])

\* the links of the entries of the input for which should_filter_entry without
\* details returned False, in their order
PassedPreFilter ==
    links_of(SelectIndexes(group_input,
                           {k \in 1..Len(group_input) : PreFilterResult[group_input[k]] = "False"}, 1))

\* C27: an extraction is requested only once the pre-extraction filter has run, and
\* the entries of the request are the entries for which should_filter_entry
\* without details returned False; when it returned True for every entry, no
\* extraction is requested and the result is empty.
C27_FilterBeforeExtraction ==
    /\ \A n \in 1..Len(extraction_batches) :
          /\ group_state # "filter"
          /\ [k \in 1..Len(extraction_batches[n]) |-> extraction_batches[n][k].id] = PassedPreFilter
    /\ group_state # "filter" /\ (\A k \in 1..Len(group_input) : PreFilterResult[group_input[k]] = "True")
          => extraction_batches = <<>> /\ group_state = "returned" /\ grouped = EmptyMap

\* the extraction was requested for one of two entries, the other being suppressed
\* by the pre-extraction filter
C27_Witness ==
    /\ Len(group_input) = 2 /\ Len(extraction_batches) = 1 /\ Len(extraction_batches[1]) = 1
    /\ \E k \in 1..2 : PreFilterResult[group_input[k]] = "True"

\* every entry was suppressed by the pre-extraction filter and the function
\* returned no group without an extraction
C27_WitnessAllSuppressed ==
    /\ group_input # <<>> /\ group_state = "returned" /\ extraction_batches = <<>>
    /\ \A k \in 1..Len(group_input) : PreFilterResult[group_input[k]] = "True"

(***************************************************************************)
(* Properties of what a cycle writes to the ledger (Spec).                 *)
(***************************************************************************)
\* C28: a cycle ends after a write of links to the ledger exactly when
\* process_disasters returned a text; the write is of the link of every new entry
\* of the cycle; between the pruning at its start and that write the cycle leaves
\* the ledger as it is.
C28_WritesExactlyWhenSummary ==
    [][/\ pc # "idle" /\ pc' = "idle" => ((pc = "save") <=> (summary.kind = "text"))
       /\ pc = "save" =>
             \/ ledger' = ledger /\ saved' = <<>>
             \/ /\ saved' = links_of(new_disasters)
                /\ \A k \in 1..Len(new_disasters) : new_disasters[k].link \in DOMAIN ledger'
       /\ pc \notin {"idle", "save"} => ledger' = ledger /\ saved' = <<>>]_vars

(***************************************************************************)
(* Termination of send_disaster_alert_block (SpecSendFair).                *)
(***************************************************************************)
SendEnded == send_pc \in {"returned", "raised"}

\* C29: the call ends, after at most 3 posts of the blocks; it returns True if and
\* only if Slack accepted one post of the blocks; with the token or the channel
\* unset it posts nothing and returns False.
C29_SendTerminates ==
    /\ <>SendEnded
    /\ [](/\ Cardinality(BlocksPosts) <= 3
          /\ (send_return = "True") <=> (\E j \in BlocksPosts : send_answers[j].code = "ok")
          /\ SendEnded /\ (\E j \in BlocksPosts : send_answers[j].code = "ok") => send_pc = "returned"
          /\ ~token_set \/ ~channel_set => send_posts = <<>> /\ (SendEnded => send_return = "False"))

\* the third post of the blocks was accepted after a rate limit and an error
C29_Witness ==
    /\ send_pc = "returned" /\ send_return = "True" /\ Cardinality(BlocksPosts) = 3
    /\ send_answers[1].code = "rate_limited" /\ send_answers[2].code = "api_error"

(***************************************************************************)
(* Forward progress across cycles (main.py 120-163, job 165-192, the       *)
(* scheduler loop 207-217).                                                *)
(***************************************************************************)
\* the entries that group_disasters keeps, alone in a batch, whatever the
\* extraction answers
PassesFilter ==
    Tabulated([e \in FeedCatalog |->
        \A mode \in {llm.extract : llm \in HealthyLLMs} :
            group_disasters(<<e>>, mode) = [outcome |-> "returned", members |-> <<e>>]])

FetchedThisCycle(e) == \E k \in DOMAIN disasters : disasters[k] = e

\* C30: once the feed fetch, the LLM calls and the Slack post succeed for good,
\* every fetched entry that the filter does not suppress is eventually included in a
\* notification that was sent successfully, whatever failed in earlier cycles.
C30_ForwardProgress ==
    \A e \in FeedCatalog :
        (healthy /\ PassesFilter[e] /\ FetchedThisCycle(e)) ~> (e.link \in delivered)

=============================================================================
